---- MODULE Spec2Model ----
(***************************************************************************)
(* RTSP-server: the Process Supervisor (StreamJobManager) and the Task     *)
(* Store (SettingsStore), as one state machine.                            *)
(*                                                                         *)
(* The program runs on one JavaScript event loop.  An action of this       *)
(* module is one run-to-completion piece of code: the synchronous part of  *)
(* a method up to its next await on real I/O, or the continuation that     *)
(* runs when that I/O completes, or one subprocess notification handler    *)
(* up to its first await.                                                  *)
(***************************************************************************)
EXTENDS Integers, Sequences, FiniteSets, TLC

\* ------------------------------------------------------------------ bounds
MaxTasks == 2       \* task ids that randomUUID hands out
MaxStarts == 2      \* startTask calls issued in one behaviour
MaxInflight == 2    \* calls of the public methods in progress at once
MaxPathLen == 2     \* length of a raw path given to createTask/updateTask

\* ------------------------------------------------------------------ values
TaskIds == 1..MaxTasks
ProcIds == 1..MaxStarts
Slots == 1..MaxInflight
NoProc == 0

Chars == {"/", " ", "a"}

RawPaths == UNION {[1..n -> Chars] : n \in 0..MaxPathLen}

\* ------------------------------------------------------------------ normalizePathSegment
RECURSIVE TrimStart(_)
TrimStart(s) ==
  IF s # <<>> /\ Head(s) = " " THEN TrimStart(Tail(s)) ELSE s

RECURSIVE TrimEnd(_)
TrimEnd(s) ==
  IF s # <<>> /\ s[Len(s)] = " " THEN TrimEnd(SubSeq(s, 1, Len(s) - 1)) ELSE s

RECURSIVE StripLeadingSlashes(_)
StripLeadingSlashes(s) ==
  IF s # <<>> /\ Head(s) = "/" THEN StripLeadingSlashes(Tail(s)) ELSE s

RECURSIVE CollapseWhitespace(_)
CollapseWhitespace(s) ==
  IF s = <<>> THEN <<>>
  ELSE IF Head(s) = " " THEN <<"-">> \o CollapseWhitespace(TrimStart(s))
  ELSE <<Head(s)>> \o CollapseWhitespace(Tail(s))

\* The normalization with the slashes stripped before the trim: a faulty
\* variant used to show that idempotence depends on the order of the three
\* steps of line 29.
normalizeStripFirst(value) ==
  CollapseWhitespace(TrimEnd(TrimStart(StripLeadingSlashes(value))))

\* settings-store.ts lines 28-31: trim, strip the leading slashes, replace
\* each run of whitespace by a hyphen.
normalizePathSegment(value) ==
  CollapseWhitespace(StripLeadingSlashes(TrimEnd(TrimStart(value))))

\* Raw paths with upper-case letters and inner whitespace: "Demo Room",
\* "demo-room", "/Demo Room" and "Demo-Room".
DemoRoom == <<"D", "e", "m", "o", " ", "R", "o", "o", "m">>

DemoRoomLower == <<"d", "e", "m", "o", "-", "r", "o", "o", "m">>

DemoPaths ==
  {DemoRoom, DemoRoomLower, <<"/">> \o DemoRoom,
   <<"D", "e", "m", "o", "-", "R", "o", "o", "m">>}

\* normalizePathSegment, tabulated over the raw paths.
Normalized == [r \in RawPaths \cup DemoPaths |-> normalizePathSegment(r)]

\* ------------------------------------------------------------------ state
VARIABLES
  stored,     \* ids of the records in config.tasks
  task,       \* the task objects: a closure keeps one after its removal
  nextId,     \* ids handed out so far
  jobs,       \* the jobs map: task id -> process handle, NoProc for no entry
  stopping,   \* the stop-requested marker set
  proc,       \* the subprocesses spawned so far, by handle
  calls,      \* the calls in progress, by slot
  saveQueue,  \* continuations waiting for their file write, oldest first
  events,     \* per task, the status carried by each stateChanged event
  hist,       \* per task, what has been asked of it so far
  lastRet,    \* how the store decided the most recent createTask or updateTask
  configFile, \* config.json as SettingsStore.init finds it
  server,     \* RTSPServerManager: process, status.state, stopRequested
  child,      \* the relay-server subprocesses spawned so far, by handle
  scalls,     \* the calls of RTSPServerManager methods in progress, by slot
  cmd,        \* a command synthesis: its inputs and what it returned
  scan,       \* FFmpegCapabilityDetector and scanCapabilities: caches and calls
  disk,       \* SettingsStore.persist: the chain of file writes and config.json
  config,     \* SettingsStore: config.settings and the settings in config.json
  teardown    \* StreamJobManager.stopAll: the ids it has still to stop

\* The variables of the stream supervisor and the store.
taskVars == <<stored, task, nextId, jobs, stopping, proc, calls, saveQueue, events, hist, lastRet>>

\* The variables of the relay-server supervisor.
serverVars == <<server, child, scalls>>

\* The variables of the capability detector, the write chain and the settings.
appVars == <<scan, disk, config>>

vars == <<taskVars, configFile, serverVars, cmd, appVars, teardown>>


\* ------------------------------------------------------------------ records
NoTask == [status |-> "created", lastError |-> "none", path |-> <<>>]

\* A subprocess not yet spawned.  path is the routing key in the argument
\* vector it was launched with.
NoProcess ==
  [id |-> 0, st |-> "none", exitCode |-> "null", signalCode |-> FALSE,
   term |-> FALSE, kill |-> FALSE, stopReq |-> FALSE, stopRet |-> FALSE,
   timedOut |-> FALSE, rec |-> "none", path |-> <<>>]

\* A call slot not in use.  path is the routing key of the command a
\* startTask has synthesized (the constant built of line 106).
FreeSlot == [op |-> "free", id |-> 0, pc |-> "free", p |-> NoProc, path |-> <<>>]

NoRet == [op |-> "none", id |-> 0, via |-> "none", f |-> {}]

InitPath(i) == [k \in 1..i |-> "a"]

\* config.json once init has read it: its content is no longer looked at.
FileRead == [phase |-> "read", kind |-> "json", tasks |-> <<>>]

\* A relay-server subprocess not yet spawned.  conf is the settings the
\* configuration file was rendered from when the subprocess was launched.
NoChild ==
  [st |-> "none", exitCode |-> "null", term |-> FALSE, kill |-> FALSE,
   stopReq |-> FALSE, stopRet |-> FALSE, rec |-> "none", conf |-> "none"]

\* RTSPServerManager after construction; conf is the content of mediamtx.yml.
NoServer == [process |-> NoProc, state |-> "stopped", stopRequested |-> FALSE, conf |-> "none"]

FreeCall == [op |-> "free", pc |-> "free", p |-> NoProc, settings |-> "none"]

\* What a synthesis gives back: the built command, or the error it threw.
NoBuilt ==
  [error |-> "none", missing |-> "none", args |-> <<>>, outputUrl |-> <<>>,
   selectedPolicy |-> "none", videoEncoder |-> "none"]

NoCmd == [phase |-> "idle", task |-> "none", settings |-> "none", caps |-> "none", out |-> NoBuilt]

\* A scanCapabilities call slot not in use.
FreeScan == [pc |-> "free", force |-> FALSE]

\* The detector after construction: cache is the detector's cache field and
\* cached is cachedCapabilities of index.ts, each empty or holding one
\* snapshot; issued, probes and hits count the calls made, the probes launched
\* and the calls answered from a cache; ret is what the call that returned
\* last gave back.
NoScan ==
  [cache |-> {}, cached |-> {}, calls |-> [c \in Slots |-> FreeScan],
   issued |-> 0, probes |-> 0, hits |-> 0, ret |-> {}]

\* The write chain right after init: nothing queued, and config.json holds the
\* configuration in memory.  mem is config.tasks, a revision count per task;
\* links are the callbacks chained on saveQueue, oldest first, each with the
\* text persist serialized for it; file is the content of config.json.
NoDisk == [mem |-> [id \in TaskIds |-> 0], links |-> <<>>, file |-> [id \in TaskIds |-> 0]]

\* A settings object with no field set.  A field holds the set of its values:
\* empty when the object has no such field.
NoSettings ==
  [listenHost |-> {}, listenPort |-> {}, enableAuth |-> {}, authUsername |-> {},
   authPassword |-> {}, defaultHwAccelPolicy |-> {}]

\* The store before init, with no config.json: settings and tasks are
\* config.settings and config.tasks, file is config.json, before is the
\* configuration the previous run of the application ended with, runs counts
\* the runs of the application and ret is what the last updateSettings gave.
\* current is config.settings under the name the relay-server supervisor is
\* handed it, and setting holds the settings of a settings:set request that
\* awaits updateSettings.
NoConfig ==
  [phase |-> "unread", settings |-> NoSettings, tasks |-> <<>>,
   file |-> [kind |-> "missing", settings |-> NoSettings, tasks |-> <<>>],
   before |-> {}, runs |-> 1, ret |-> "none", current |-> "s1", setting |-> {}]

\* No stopAll called yet.  ids is runningIds, rest the part of it the loop has
\* still to go through, awaiting the slot of the stopTask call the loop waits
\* for (0: the call ended without waiting); host is the application process:
\* up, in its before-quit handler, quitting, or exited.
NoTeardown == [st |-> "idle", ids |-> {}, rest |-> <<>>, awaiting |-> 0, host |-> "up"]

\* ------------------------------------------------------------------ helpers
\* A subprocess the operating system still runs: launched and not yet reaped.
Alive(pr, id) == \E q \in ProcIds : pr[q].id = id /\ pr[q].st \in {"launching", "up"}

\* The next-tick queue is empty: the 'spawn' or 'error' notification of a
\* launch is delivered before any later I/O completion or request.
Quiet == \A q \in ProcIds : proc[q].st # "launching"

\* A request can arrive: nothing is queued for the next tick, and the close
\* notification of a failed launch (no stdio was ever opened) is not pending.
MayIssue ==
  /\ Quiet
  /\ \A q \in ProcIds : proc[q].st # "failed"
  /\ \E c \in Slots : calls[c].op = "free"

NewSlot == CHOOSE c \in Slots : calls[c].op = "free" /\ \A d \in Slots : d < c => calls[d].op # "free"

NewProc == CHOOSE q \in ProcIds : proc[q].st = "none" /\ \A r \in ProcIds : r < q => proc[r].st # "none"

RECURSIVE SumStarts(_)
SumStarts(S) ==
  IF S = {} THEN 0 ELSE LET i == CHOOSE x \in S : TRUE IN hist[i].starts + SumStarts(S \ {i})

\* How a createTask or updateTask ended, with what the request asked for.
Result(op, id, via, flags) == [op |-> op, id |-> id, via |-> via, f |-> flags]

\* A request for task id arrives.  The event log of a task covers its first
\* start for as long as nothing else is asked of the task.
InScope(h) == h.starts <= 1 /\ ~h.others

Asked(id, isStart) ==
  LET h == [starts |-> hist[id].starts + (IF isStart THEN 1 ELSE 0),
            others |-> hist[id].others \/ ~isStart]
  IN /\ hist' = [hist EXCEPT ![id] = h]
     /\ events' = IF InScope(h) THEN events ELSE [events EXCEPT ![id] = <<>>]

\* updateTaskRuntimeState, lines 284-285: the assignment to the stored object.
setRuntimeState(t, id, status, lastError) ==
  [t EXCEPT ![id].status = status, ![id].lastError = lastError]

\* persist: the caller resumes when its own link of the write chain is done.
persist(q, k, c, p) == Append(q, [k |-> k, c |-> c, p |-> p])

emitState(ev, id, t) ==
  IF InScope(hist[id]) THEN [ev EXCEPT ![id] = Append(@, t[id].status)] ELSE ev

\* ChildProcess.kill: the signal reaches the subprocess while its handle is
\* open; after the exit was reaped the call sends nothing.
Kill(pr, p, sig) ==
  IF pr[p].st = "up"
  THEN IF sig = "SIGTERM" THEN [pr EXCEPT ![p].term = TRUE] ELSE [pr EXCEPT ![p].kill = TRUE]
  ELSE pr

\* ------------------------------------------------------------------ Init
Loaded == 1         \* tasks in the configuration file the store loads at start

LoadedIds == 1..Loaded

TypeInit ==
  /\ jobs = [i \in TaskIds |-> NoProc]
  /\ stopping = {}
  /\ proc = [q \in ProcIds |-> NoProcess]
  /\ calls = [c \in Slots |-> FreeSlot]
  /\ saveQueue = <<>>
  /\ events = [i \in TaskIds |-> <<>>]
  /\ hist = [i \in TaskIds |-> [starts |-> 0, others |-> FALSE]]
  /\ lastRet = NoRet

\* The relay-server supervisor after construction, with nothing asked of it.
ServerIdle ==
  /\ server = NoServer
  /\ child = [q \in ProcIds |-> NoChild]
  /\ scalls = [c \in Slots |-> FreeCall]

\* The capability detector, the write chain, the settings and stopAll with
\* nothing asked of them.
AppIdle ==
  /\ scan = NoScan
  /\ disk = NoDisk
  /\ config = NoConfig
  /\ teardown = NoTeardown

\* The supervisor over a store that loaded its tasks.
Init ==
  /\ stored = LoadedIds
  /\ task = [i \in TaskIds |-> IF i <= Loaded THEN [NoTask EXCEPT !.path = InitPath(i)] ELSE NoTask]
  /\ nextId = Loaded
  /\ TypeInit
  /\ configFile = FileRead
  /\ ServerIdle
  /\ AppIdle
  /\ cmd = NoCmd

\* ------------------------------------------------------------------ startTask
\* Lines 89-97: the already-running check, then the await on the binary check.
IssueStart(id) ==
  /\ UNCHANGED <<configFile, serverVars, cmd, appVars, teardown>>
  /\ MayIssue
  /\ SumStarts(TaskIds) < MaxStarts
  /\ Asked(id, TRUE)
  /\ UNCHANGED <<stored, task, nextId, jobs, stopping, proc, saveQueue>>
  /\ UNCHANGED lastRet
  /\ IF jobs[id] # NoProc
     THEN UNCHANGED calls
     ELSE calls' = [calls EXCEPT ![NewSlot] = [FreeSlot EXCEPT !.op = "start", !.id = id, !.pc = "bin"]]

\* A failing check that records the failure on the task: a faulty variant
\* used to show that the no-effect property depends on startTask touching the
\* store only after its checks.
StartFailsRecorded(c) ==
  /\ calls' = [calls EXCEPT ![c] = FreeSlot]
  /\ task' = setRuntimeState(task, calls[c].id, "error", "start")
  /\ UNCHANGED <<stored, nextId, jobs, stopping, proc, saveQueue, events, hist, lastRet>>

\* A synchronous check of startTask fails: the call rejects.
StartFails(c) ==
  /\ calls' = [calls EXCEPT ![c] = FreeSlot]
  /\ UNCHANGED <<stored, task, nextId, jobs, stopping, proc, saveQueue, events, hist, lastRet>>

\* Lines 97, 231-238: ensureBinaryAvailable rejects.
StartBinaryMissing(c) ==
  /\ UNCHANGED <<configFile, serverVars, cmd, appVars, teardown>>
  /\ Quiet
  /\ calls[c].op = "start" /\ calls[c].pc = "bin"
  /\ StartFails(c)

\* Lines 97-104: the binary is there; look the task up, await access(inputFile).
StartBinaryOk(c) ==
  /\ UNCHANGED <<configFile, serverVars, cmd, appVars, teardown>>
  /\ Quiet
  /\ calls[c].op = "start" /\ calls[c].pc = "bin"
  /\ IF calls[c].id \in stored
     THEN /\ calls' = [calls EXCEPT ![c].pc = "access"]
          /\ UNCHANGED <<stored, task, nextId, jobs, stopping, proc, saveQueue, events, hist, lastRet>>
     ELSE StartFails(c)

\* Line 104 rejects (InputUnreadable) or line 106 throws (EncoderUnavailable,
\* InvalidTask).
StartCheckFails(c, why) ==
  /\ UNCHANGED <<configFile, serverVars, cmd, appVars, teardown>>
  /\ Quiet
  /\ calls[c].op = "start" /\ calls[c].pc = "access"
  /\ StartFails(c)

\* Lines 104-108: the input is readable and the command is built; the status
\* is set to 'starting' and the call awaits the write.
StartSetStarting(c) ==
  /\ UNCHANGED <<configFile, serverVars, cmd, appVars, teardown>>
  /\ Quiet
  /\ calls[c].op = "start" /\ calls[c].pc = "access"
  /\ IF calls[c].id \in stored
     THEN /\ task' = setRuntimeState(task, calls[c].id, "starting", "none")
          /\ saveQueue' = persist(saveQueue, "start", c, NoProc)
          /\ calls' = [calls EXCEPT ![c].pc = "persist", ![c].path = task[calls[c].id].path]
          /\ UNCHANGED <<stored, nextId, jobs, stopping, proc, events, hist, lastRet>>
     ELSE StartFails(c)

\* Lines 109-175: the write is done; emit the record, spawn, register the handle
\* and the handlers, return.
StartSpawn ==
  /\ UNCHANGED <<configFile, serverVars, cmd, appVars, teardown>>
  /\ Quiet
  /\ saveQueue # <<>> /\ Head(saveQueue).k = "start"
  /\ LET c == Head(saveQueue).c
         id == calls[c].id
         p == NewProc
     IN /\ events' = emitState(events, id, task)
        /\ proc' = [proc EXCEPT ![p] = [NoProcess EXCEPT !.id = id, !.st = "launching",
                                                         !.path = calls[c].path]]
        /\ jobs' = [jobs EXCEPT ![id] = p]
        /\ calls' = [calls EXCEPT ![c] = FreeSlot]
        /\ saveQueue' = Tail(saveQueue)
        /\ UNCHANGED <<stored, task, nextId, stopping, hist, lastRet>>

\* ------------------------------------------------------------------ subprocess notifications
\* Lines 118-119: 'spawn' is delivered; the handler sets 'running' and awaits.
OnSpawn(p) ==
  /\ UNCHANGED <<configFile, serverVars, cmd, appVars, teardown>>
  /\ proc[p].st = "launching"
  /\ proc' = [proc EXCEPT ![p].st = "up"]
  /\ IF proc[p].id \in stored
     THEN /\ task' = setRuntimeState(task, proc[p].id, "running", "none")
          /\ saveQueue' = persist(saveQueue, "spawnH", 0, p)
     ELSE UNCHANGED <<task, saveQueue>>
  /\ UNCHANGED <<stored, nextId, jobs, stopping, calls, events, hist, lastRet>>

\* Lines 124-128: the launch failed; 'error' is delivered.
OnError(p) ==
  /\ UNCHANGED <<configFile, serverVars, cmd, appVars, teardown>>
  /\ proc[p].st = "launching"
  /\ proc' = [proc EXCEPT ![p].st = "failed", ![p].exitCode = "neg"]
  /\ jobs' = [jobs EXCEPT ![proc[p].id] = NoProc]
  /\ stopping' = stopping \ {proc[p].id}
  /\ IF proc[p].id \in stored
     THEN /\ task' = setRuntimeState(task, proc[p].id, "error", "spawn")
          /\ saveQueue' = persist(saveQueue, "errorH", 0, p)
     ELSE UNCHANGED <<task, saveQueue>>
  /\ UNCHANGED <<stored, nextId, calls, events, hist, lastRet>>

\* The subprocess ends and Node reaps it: with exit code 0, with another exit
\* code, or killed by a signal (exitCode stays null, signalCode is set).
Exit(p, how) ==
  /\ UNCHANGED <<configFile, serverVars, cmd, appVars, teardown>>
  /\ Quiet
  /\ proc[p].st = "up"
  /\ proc' = [proc EXCEPT ![p].st = "exited",
                          ![p].exitCode = IF how = "signal" THEN "null" ELSE how,
                          ![p].signalCode = (how = "signal")]
  /\ UNCHANGED <<stored, task, nextId, jobs, stopping, calls, saveQueue, events, hist, lastRet>>

\* Lines 121, 130, 140, 150: a handler's write is done; it emits the record.
HandlerPersisted ==
  /\ UNCHANGED <<configFile, serverVars, cmd, appVars, teardown>>
  /\ Quiet
  /\ saveQueue # <<>> /\ Head(saveQueue).k \in {"spawnH", "errorH", "closeH"}
  /\ events' = emitState(events, proc[Head(saveQueue).p].id, task)
  /\ saveQueue' = Tail(saveQueue)
  /\ UNCHANGED <<stored, task, nextId, jobs, stopping, proc, calls, hist, lastRet>>


\* ------------------------------------------------------------------ stopTask, removeTask
\* Line 138: the close handler's choice between 'stopped' and 'error'.
closeIsStop(wasStopping, exitCode) == wasStopping \/ exitCode = "zero"

\* The timer's test with the comparison reversed: a faulty variant used to
\* show that the escalation property depends on the test of line 201.
timerKillsReversed(pr, p) == pr[p].exitCode # "null"

\* Line 201: the timer's test before the forceful signal.
timerKills(pr, p) == pr[p].exitCode = "null"

\* stopTask lines 213, removeTask line 85, store.removeTask lines 263-272: the
\* calls in W stop waiting.  A stopTask returns; a removeTask goes on to remove
\* the record, and awaits the write if there was one.
Resume(W, pr, q) ==
  LET any == CHOOSE c \in W : TRUE
      id == calls[any].id
      p == calls[any].p
      removes == {c \in W : calls[c].op = "remove"}
      first == IF removes # {} /\ id \in stored
               THEN CHOOSE c \in removes : \A d \in removes : c <= d
               ELSE 0
  IN /\ stored' = IF first # 0 THEN stored \ {id} ELSE stored
     /\ saveQueue' = IF first # 0 THEN persist(q, "remove", first, NoProc) ELSE q
     /\ calls' = [c \in Slots |->
                    IF c = first THEN [calls[c] EXCEPT !.pc = "persist"]
                    ELSE IF c \in W THEN FreeSlot ELSE calls[c]]
     /\ proc' = [pr EXCEPT ![p].stopRet = TRUE]
     /\ UNCHANGED lastRet

\* Lines 133-150, and the listener of line 207: 'close' is delivered.
OnClose(p) ==
  /\ UNCHANGED <<configFile, serverVars, cmd, appVars, teardown>>
  /\ Quiet
  /\ proc[p].st \in {"exited", "failed"}
  /\ LET id == proc[p].id
         stop == closeIsStop(id \in stopping, proc[p].exitCode)
         status == IF stop THEN "stopped" ELSE "error"
         pr == [proc EXCEPT ![p].st = "closed", ![p].rec = IF id \in stored THEN status ELSE "lost"]
         q == IF id \in stored THEN persist(saveQueue, "closeH", 0, p) ELSE saveQueue
         W == {c \in Slots : calls[c].pc = "wait" /\ calls[c].p = p}
     IN /\ jobs' = [jobs EXCEPT ![id] = NoProc]
        /\ stopping' = stopping \ {id}
        /\ task' = IF id \in stored
                   THEN setRuntimeState(task, id, status, IF stop THEN "none" ELSE "exit")
                   ELSE task
        /\ UNCHANGED <<nextId, events, hist>>
        /\ IF W = {}
           THEN /\ proc' = pr
                /\ saveQueue' = q
                /\ UNCHANGED <<stored, calls, lastRet>>
           ELSE Resume(W, pr, q)

\* Lines 196-211: mark the stop as requested, send SIGTERM, arm the timer and
\* wait for 'close'.
signalAndWait(op, id) ==
  /\ stopping' = stopping \cup {id}
  /\ proc' = [Kill(proc, jobs[id], "SIGTERM") EXCEPT ![jobs[id]].stopReq = TRUE]
  /\ calls' = [calls EXCEPT ![NewSlot] = [FreeSlot EXCEPT !.op = op, !.id = id, !.pc = "wait", !.p = jobs[id]]]
  /\ UNCHANGED <<stored, task, nextId, jobs, saveQueue, lastRet>>

\* stopTask writing 'stopped' whenever no process is registered: a faulty
\* variant used to show that the reconciliation property depends on the test
\* of line 187.
IssueStopAlwaysWrites(id) ==
  /\ UNCHANGED <<configFile, serverVars, cmd, appVars>>
  /\ MayIssue
  /\ Asked(id, FALSE)
  /\ IF id \notin stored
     THEN UNCHANGED <<stored, task, nextId, jobs, stopping, proc, calls, saveQueue, lastRet>>
     ELSE IF jobs[id] = NoProc
     THEN /\ task' = setRuntimeState(task, id, "stopped", "none")
          /\ saveQueue' = persist(saveQueue, "stopRecon", NewSlot, NoProc)
          /\ calls' = [calls EXCEPT ![NewSlot] = [FreeSlot EXCEPT !.op = "stop", !.id = id, !.pc = "persist"]]
          /\ UNCHANGED <<stored, nextId, jobs, stopping, proc, lastRet>>
     ELSE signalAndWait("stop", id)

\* Lines 178-197.
IssueStop(id) ==
  /\ UNCHANGED <<configFile, serverVars, cmd, appVars>>
  /\ MayIssue
  /\ Asked(id, FALSE)
  /\ IF id \notin stored
     THEN UNCHANGED <<stored, task, nextId, jobs, stopping, proc, calls, saveQueue, lastRet>>
     ELSE IF jobs[id] = NoProc
     THEN IF task[id].status # "stopped"
          THEN /\ task' = setRuntimeState(task, id, "stopped", "none")
               /\ saveQueue' = persist(saveQueue, "stopRecon", NewSlot, NoProc)
               /\ calls' = [calls EXCEPT ![NewSlot] = [FreeSlot EXCEPT !.op = "stop", !.id = id, !.pc = "persist"]]
               /\ UNCHANGED <<stored, nextId, jobs, stopping, proc, lastRet>>
          ELSE UNCHANGED <<stored, task, nextId, jobs, stopping, proc, calls, saveQueue, lastRet>>
     ELSE signalAndWait("stop", id)

\* Lines 188-190: the reconciling write is done.
StopReconciled ==
  /\ UNCHANGED <<configFile, serverVars, cmd, appVars, teardown>>
  /\ Quiet
  /\ saveQueue # <<>> /\ Head(saveQueue).k = "stopRecon"
  /\ LET c == Head(saveQueue).c
     IN /\ events' = emitState(events, calls[c].id, task)
        /\ calls' = [calls EXCEPT ![c] = FreeSlot]
        /\ saveQueue' = Tail(saveQueue)
        /\ UNCHANGED <<stored, task, nextId, jobs, stopping, proc, hist, lastRet>>

\* Lines 200-205: the 3-second timer of a waiting stopTask fires.
StopTimer(c) ==
  /\ UNCHANGED <<configFile, serverVars, cmd, appVars, teardown>>
  /\ Quiet
  /\ calls[c].pc = "wait"
  /\ LET p == calls[c].p
         kills == timerKills(proc, p)
         up == proc[p].st = "up"
         pr == [(IF kills THEN Kill(proc, p, "SIGKILL") ELSE proc)
                  EXCEPT ![p].timedOut = @ \/ up]
     IN /\ UNCHANGED <<task, nextId, jobs, stopping, events, hist>>
        /\ Resume({c}, pr, saveQueue)

\* Lines 80-86, store.removeTask lines 263-273.
IssueRemove(id) ==
  /\ UNCHANGED <<configFile, serverVars, cmd, appVars, teardown>>
  /\ MayIssue
  /\ Asked(id, FALSE)
  /\ IF jobs[id] # NoProc
     THEN IF id \notin stored
          THEN UNCHANGED <<stored, task, nextId, jobs, stopping, proc, calls, saveQueue, lastRet>>
          ELSE signalAndWait("remove", id)
     ELSE IF id \in stored
          THEN /\ stored' = stored \ {id}
               /\ saveQueue' = persist(saveQueue, "remove", NewSlot, NoProc)
               /\ calls' = [calls EXCEPT ![NewSlot] = [FreeSlot EXCEPT !.op = "remove", !.id = id, !.pc = "persist"]]
               /\ UNCHANGED <<task, nextId, jobs, stopping, proc, lastRet>>
          ELSE UNCHANGED <<stored, task, nextId, jobs, stopping, proc, calls, saveQueue, lastRet>>


\* ------------------------------------------------------------------ createTask, updateTask
\* settings-store.ts line 173: the path is held by a stored task.
createPathTaken(seg) == \E i \in stored : task[i].path = seg

\* The collision test without the exclusion of the task itself: a faulty
\* variant used to show that the path property depends on line 212's
\* `item.id !== id`.
updatePathTakenAny(id, seg) == \E i \in stored : task[i].path = seg

\* settings-store.ts line 212: the path is held by another stored task.
updatePathTaken(id, seg) == \E i \in stored : i # id /\ task[i].path = seg

\* settings-store.ts lines 163-175: the checks of createTask, in their order.
createOutcome(payload) ==
  LET pathSegment == Normalized[payload.path]
  IN IF pathSegment = <<>> THEN "PathRequired"
     ELSE IF payload.input # "ok" THEN "InputRequired"
     ELSE IF createPathTaken(pathSegment) THEN "PathTaken"
     ELSE "ok"

\* settings-store.ts line 207.
nextPathOf(id, payload) ==
  IF payload.hasPath THEN Normalized[payload.path] ELSE task[id].path

\* settings-store.ts lines 201-219: the checks of updateTask, in their order.
updateOutcome(id, payload) ==
  IF id \notin stored THEN "NotFound"
  ELSE IF nextPathOf(id, payload) = <<>> THEN "PathRequired"
  ELSE IF updatePathTaken(id, nextPathOf(id, payload)) THEN "PathTaken"
  ELSE IF payload.input = "blank" THEN "InputRequired"
  ELSE "ok"

\* What a request asks for, whatever the store then decides.
CreateFlags(payload) ==
  (IF \E i \in stored : task[i].path = Normalized[payload.path] THEN {"taken"} ELSE {})
  \cup (IF Normalized[payload.path] # <<>> /\ payload.input = "ok" THEN {"valid"} ELSE {})

UpdateFlags(id, payload) ==
  LET seg == IF payload.hasPath THEN Normalized[payload.path] ELSE task[id].path
  IN (IF \E i \in stored \ {id} : task[i].path = seg THEN {"taken"} ELSE {})
     \cup (IF id \in stored /\ seg = task[id].path THEN {"own"} ELSE {})
     \cup (IF id \in stored /\ payload.input # "blank" THEN {"valid"} ELSE {})

\* settings-store.ts lines 160-195.
IssueCreate(payload) ==
  /\ UNCHANGED <<configFile, serverVars, cmd, appVars, teardown>>
  /\ MayIssue
  /\ nextId < MaxTasks
  /\ UNCHANGED <<jobs, stopping, proc, events, hist>>
  /\ lastRet' = Result("create", 0, createOutcome(payload), CreateFlags(payload))
  /\ IF createOutcome(payload) = "ok"
     THEN /\ nextId' = nextId + 1
          /\ stored' = stored \cup {nextId + 1}
          /\ task' = [task EXCEPT ![nextId + 1] = [NoTask EXCEPT !.path = Normalized[payload.path]]]
          /\ saveQueue' = persist(saveQueue, "create", NewSlot, NoProc)
          /\ calls' = [calls EXCEPT ![NewSlot] = [FreeSlot EXCEPT !.op = "create", !.id = nextId + 1,
                                                            !.pc = "persist"]]
     ELSE UNCHANGED <<stored, task, nextId, calls, saveQueue>>

\* stream-job-manager.ts lines 72-78, settings-store.ts lines 199-259.  With
\* rec, how the request was decided is kept in lastRet.
IssueUpdate(id, payload, rec) ==
  /\ UNCHANGED <<configFile, serverVars, cmd, appVars, teardown>>
  /\ MayIssue
  /\ Asked(id, FALSE)
  /\ UNCHANGED <<stored, nextId, jobs, stopping, proc>>
  /\ LET outcome == IF jobs[id] # NoProc THEN "TaskBusy" ELSE updateOutcome(id, payload)
     IN /\ lastRet' = IF rec THEN Result("update", id, outcome, UpdateFlags(id, payload)) ELSE lastRet
        /\ IF outcome = "ok"
           THEN /\ task' = [task EXCEPT ![id].path = nextPathOf(id, payload)]
                /\ saveQueue' = persist(saveQueue, "update", NewSlot, NoProc)
                /\ calls' = [calls EXCEPT ![NewSlot] = [FreeSlot EXCEPT !.op = "update", !.id = id, !.pc = "persist"]]
           ELSE UNCHANGED <<task, calls, saveQueue>>

\* settings-store.ts lines 195-196, 259-260, 272-273: the write of a create,
\* update or remove is done; the call returns.
StorePersisted ==
  /\ UNCHANGED <<configFile, serverVars, cmd, appVars, teardown>>
  /\ Quiet
  /\ saveQueue # <<>> /\ Head(saveQueue).k \in {"create", "update", "remove"}
  /\ LET c == Head(saveQueue).c
     IN /\ calls' = [calls EXCEPT ![c] = FreeSlot]
        /\ saveQueue' = Tail(saveQueue)
        /\ UNCHANGED <<stored, task, nextId, jobs, stopping, proc, events, hist, lastRet>>

\* ------------------------------------------------------------------ specifications
StartFailures == {"InputUnreadable", "EncoderUnavailable"}

ExitKinds == {"zero", "nonzero", "signal"}

\* The edits a caller makes while the supervisor runs.
SupervisorPayloads ==
  {[hasPath |-> TRUE, path |-> r, input |-> "undef"] : r \in {<<"/", "a">>, <<"a", "/">>}}

CreatePayloads == {[path |-> r, input |-> i] : r \in RawPaths, i \in {"blank", "ok"}}

UpdatePayloads ==
  {[hasPath |-> TRUE, path |-> r, input |-> i] : r \in RawPaths, i \in {"undef", "blank", "ok"}}
  \cup {[hasPath |-> FALSE, path |-> <<>>, input |-> i] : i \in {"undef", "blank", "ok"}}

Next ==
  \/ \E id \in LoadedIds : IssueStart(id)
  \/ \E id \in LoadedIds : IssueStop(id) /\ UNCHANGED teardown
  \/ \E id \in LoadedIds : IssueRemove(id)
  \/ \E id \in LoadedIds, payload \in SupervisorPayloads : IssueUpdate(id, payload, FALSE)
  \/ \E c \in Slots : StartBinaryMissing(c)
  \/ \E c \in Slots : StartBinaryOk(c)
  \/ \E c \in Slots, why \in StartFailures : StartCheckFails(c, why)
  \/ \E c \in Slots : StartSetStarting(c)
  \/ StartSpawn
  \/ \E p \in ProcIds : OnSpawn(p)
  \/ \E p \in ProcIds : OnError(p)
  \/ \E p \in ProcIds, how \in ExitKinds : Exit(p, how)
  \/ \E p \in ProcIds : OnClose(p)
  \/ HandlerPersisted
  \/ StopReconciled
  \/ \E c \in Slots : StopTimer(c)
  \/ StorePersisted

Spec == Init /\ [][Next]_vars

\* The store on its own, from an empty configuration.
StoreInit ==
  /\ stored = {}
  /\ task = [i \in TaskIds |-> NoTask]
  /\ nextId = 0
  /\ TypeInit
  /\ configFile = FileRead
  /\ ServerIdle
  /\ AppIdle
  /\ cmd = NoCmd

StoreNext ==
  \/ \E payload \in CreatePayloads : IssueCreate(payload)
  \/ \E id \in TaskIds, payload \in UpdatePayloads : IssueUpdate(id, payload, TRUE)
  \/ \E id \in TaskIds : IssueRemove(id)
  \/ StorePersisted

StoreSpec == StoreInit /\ [][StoreNext]_vars

\* The store, asked to create and edit tasks whose raw paths have upper-case
\* letters and inner whitespace.
DemoCreates == {[path |-> r, input |-> "ok"] : r \in DemoPaths}

DemoUpdates == {[hasPath |-> TRUE, path |-> r, input |-> "undef"] : r \in DemoPaths}

DemoNext ==
  \/ \E payload \in DemoCreates : IssueCreate(payload)
  \/ \E id \in TaskIds, payload \in DemoUpdates : IssueUpdate(id, payload, TRUE)
  \/ \E id \in TaskIds : IssueRemove(id)
  \/ StorePersisted

DemoSpec == StoreInit /\ [][DemoNext]_vars

\* ------------------------------------------------------------------ capability snapshots
Policies == {"auto", "cpu", "qsv", "videotoolbox", "nvenc"}

VideoCodecs == {"copy", "h264", "hevc"}

HwEncoders ==
  {"h264_qsv", "hevc_qsv", "h264_videotoolbox", "hevc_videotoolbox", "h264_nvenc", "hevc_nvenc"}

\* ffmpeg-capability-detector.ts lines 117-128: the snapshot of a scan that
\* found these encoders.
capabilityOf(encoders) ==
  [available |-> TRUE,
   hasQsvH264 |-> "h264_qsv" \in encoders,
   hasQsvHevc |-> "hevc_qsv" \in encoders,
   hasVideoToolboxH264 |-> "h264_videotoolbox" \in encoders,
   hasVideoToolboxHevc |-> "hevc_videotoolbox" \in encoders,
   hasNvencH264 |-> "h264_nvenc" \in encoders,
   hasNvencHevc |-> "hevc_nvenc" \in encoders]

\* ffmpeg-capability-detector.ts lines 139-153: the snapshot of a failed scan.
unavailable ==
  [available |-> FALSE, hasQsvH264 |-> FALSE, hasQsvHevc |-> FALSE,
   hasVideoToolboxH264 |-> FALSE, hasVideoToolboxHevc |-> FALSE,
   hasNvencH264 |-> FALSE, hasNvencHevc |-> FALSE]

CapSnapshots == {unavailable} \cup {capabilityOf(E) : E \in SUBSET HwEncoders}

\* ------------------------------------------------------------------ selectEncoder
\* ffmpeg-command-builder.ts lines 16-22.
codecPrefix(codec) == IF codec = "hevc" THEN "hevc" ELSE "h264"

\* Lines 24-30.
cpuEncoder(codec) == IF codec = "hevc" THEN "libx265" ELSE "libx264"

\* Lines 39-41: `${prefix}_qsv`, `${prefix}_nvenc`, `${prefix}_videotoolbox`.
hwEncoder(prefix, backend) ==
  CASE prefix = "h264" /\ backend = "qsv" -> "h264_qsv"
    [] prefix = "hevc" /\ backend = "qsv" -> "hevc_qsv"
    [] prefix = "h264" /\ backend = "nvenc" -> "h264_nvenc"
    [] prefix = "hevc" /\ backend = "nvenc" -> "hevc_nvenc"
    [] prefix = "h264" /\ backend = "videotoolbox" -> "h264_videotoolbox"
    [] prefix = "hevc" /\ backend = "videotoolbox" -> "hevc_videotoolbox"

\* The capability test that looks at the H.264 flags for every codec: a
\* faulty variant used to show that the safety of the emitted encoder depends
\* on the codec-family selection of lines 43-45.
canUseH264Only(videoCodec, caps, backend) ==
  CASE backend = "qsv" -> caps.hasQsvH264
    [] backend = "nvenc" -> caps.hasNvencH264
    [] backend = "videotoolbox" -> caps.hasVideoToolboxH264

\* Lines 43-45: canUseQsv, canUseNvenc, canUseVideoToolbox.
canUse(videoCodec, caps, backend) ==
  CASE backend = "qsv" -> IF videoCodec = "hevc" THEN caps.hasQsvHevc ELSE caps.hasQsvH264
    [] backend = "nvenc" -> IF videoCodec = "hevc" THEN caps.hasNvencHevc ELSE caps.hasNvencH264
    [] backend = "videotoolbox" ->
         IF videoCodec = "hevc" THEN caps.hasVideoToolboxHevc ELSE caps.hasVideoToolboxH264

\* Line 47.
requestedPolicy(t, settings) ==
  IF t.hwAccel = "auto" THEN settings.defaultHwAccelPolicy ELSE t.hwAccel

Selected(policy, encoder) == [error |-> "none", policy |-> policy, encoder |-> encoder]

Unavailable(encoder) == [error |-> "EncoderUnavailable", policy |-> "none", encoder |-> encoder]

\* A named backend that falls back to software when its flag is not set: a
\* faulty variant used to show that the refusal of lines 50-52, 61-63 and
\* 79-81 is what the property of named backends rests on.
namedBackendFallsBack(backend, t, caps) ==
  IF canUse(t.videoCodec, caps, backend)
  THEN Selected(backend, hwEncoder(codecPrefix(t.videoCodec), backend))
  ELSE Selected("cpu", cpuEncoder(t.videoCodec))

\* Lines 49-58, 60-69, 78-87: a named hardware backend is taken if its flag is
\* set and refused otherwise.
namedBackend(backend, t, caps) ==
  IF canUse(t.videoCodec, caps, backend)
  THEN Selected(backend, hwEncoder(codecPrefix(t.videoCodec), backend))
  ELSE Unavailable(hwEncoder(codecPrefix(t.videoCodec), backend))

\* The fallback chain that tries QSV before NVENC: a faulty variant used to
\* show that the preference order depends on the order of lines 89-108.
autoChoiceQsvFirst(t, caps) ==
  LET prefix == codecPrefix(t.videoCodec)
  IN IF canUse(t.videoCodec, caps, "qsv") THEN Selected("qsv", hwEncoder(prefix, "qsv"))
     ELSE IF canUse(t.videoCodec, caps, "nvenc") THEN Selected("nvenc", hwEncoder(prefix, "nvenc"))
     ELSE IF canUse(t.videoCodec, caps, "videotoolbox")
          THEN Selected("videotoolbox", hwEncoder(prefix, "videotoolbox"))
     ELSE Selected("cpu", cpuEncoder(t.videoCodec))

\* The fallback chain without VideoToolbox: a faulty variant used to show that
\* the four-step order depends on lines 103-108.
autoChoiceNoVideoToolbox(t, caps) ==
  LET prefix == codecPrefix(t.videoCodec)
  IN IF canUse(t.videoCodec, caps, "nvenc") THEN Selected("nvenc", hwEncoder(prefix, "nvenc"))
     ELSE IF canUse(t.videoCodec, caps, "qsv") THEN Selected("qsv", hwEncoder(prefix, "qsv"))
     ELSE Selected("cpu", cpuEncoder(t.videoCodec))

\* Lines 89-113: no backend was named; the first available of NVENC, QSV and
\* VideoToolbox, else software.
autoChoice(t, caps) ==
  LET prefix == codecPrefix(t.videoCodec)
  IN IF canUse(t.videoCodec, caps, "nvenc") THEN Selected("nvenc", hwEncoder(prefix, "nvenc"))
     ELSE IF canUse(t.videoCodec, caps, "qsv") THEN Selected("qsv", hwEncoder(prefix, "qsv"))
     ELSE IF canUse(t.videoCodec, caps, "videotoolbox")
          THEN Selected("videotoolbox", hwEncoder(prefix, "videotoolbox"))
     ELSE Selected("cpu", cpuEncoder(t.videoCodec))

\* The selection without the test of lines 33-35: a faulty variant used to
\* show that a copy task depends on the short-circuit.
selectEncoderNoCopy(t, settings, caps) ==
  LET requested == requestedPolicy(t, settings)
  IN IF requested = "qsv" THEN namedBackend("qsv", t, caps)
     ELSE IF requested = "nvenc" THEN namedBackend("nvenc", t, caps)
     ELSE IF requested = "cpu" THEN Selected("cpu", cpuEncoder(t.videoCodec))
     ELSE IF requested = "videotoolbox" THEN namedBackend("videotoolbox", t, caps)
     ELSE autoChoice(t, caps)

\* Lines 32-114.
selectEncoder(t, settings, caps) ==
  IF t.videoCodec = "copy" THEN Selected("copy", "copy")
  ELSE LET requested == requestedPolicy(t, settings)
       IN IF requested = "qsv" THEN namedBackend("qsv", t, caps)
          ELSE IF requested = "nvenc" THEN namedBackend("nvenc", t, caps)
          ELSE IF requested = "cpu" THEN Selected("cpu", cpuEncoder(t.videoCodec))
          ELSE IF requested = "videotoolbox" THEN namedBackend("videotoolbox", t, caps)
          ELSE autoChoice(t, caps)

\* ------------------------------------------------------------------ buildFFmpegCommand
\* Lines 116-118.
safeSegment(value) == CollapseWhitespace(StripLeadingSlashes(TrimEnd(TrimStart(value))))

\* The listen hosts tried, and String.trim and String.toLowerCase on them.
Hosts == {"0.0.0.0", " :: ", "[::]", " Cam.local"}

hostTrim(host) ==
  CASE host = " :: " -> "::"
    [] host = " Cam.local" -> "Cam.local"
    [] OTHER -> host

hostLower(host) == IF host = "Cam.local" THEN "cam.local" ELSE host

\* Lines 120-123.
isWildcardHost(host) == hostLower(hostTrim(host)) \in {"0.0.0.0", "::", "[::]"}

\* encodeURIComponent on the credentials tried.
encodeURIComponent(value) == IF value = "p@ss w" THEN "p%40ss%20w" ELSE value

\* Lines 137-141: the output URL, as the sequence of its parts.
outputUrlOf(settings, pathSegment) ==
  LET publishHost == IF isWildcardHost(settings.listenHost)
                     THEN "127.0.0.1" ELSE hostTrim(settings.listenHost)
      authPrefix == IF settings.enableAuth
                    THEN <<encodeURIComponent(settings.authUsername), ":",
                           encodeURIComponent(settings.authPassword), "@">>
                    ELSE <<>>
  IN <<"rtsp://">> \o authPrefix \o <<publishHost, ":", settings.listenPort, "/">> \o pathSegment

\* Lines 326-328: the output URL of the second declaration of
\* buildFFmpegCommand in the file: the credentials always, the listen host as
\* it is configured.
outputUrlOfSecond(settings, pathSegment) ==
  <<"rtsp://", encodeURIComponent(settings.authUsername), ":",
    encodeURIComponent(settings.authPassword), "@",
    settings.listenHost, ":", settings.listenPort, "/">> \o pathSegment

\* Lines 143-185: the argument vector; each argument is the sequence of its
\* parts.
argsOf(t, policy, encoder, outputUrl) ==
  <<<<"-hide_banner">>, <<"-loglevel">>, <<"info">>, <<"-re">>>>
  \o (IF t.loop THEN <<<<"-stream_loop">>, <<"-1">>>> ELSE <<>>)
  \o <<<<"-i">>, <<t.inputFile>>>>
  \o (IF t.videoCodec = "copy"
      THEN <<<<"-c:v">>, <<"copy">>>>
      ELSE <<<<"-c:v">>, <<encoder>>>>
           \o (IF t.bitrateKbps # "undefined" THEN <<<<"-b:v">>, <<t.bitrateKbps, "k">>>> ELSE <<>>)
           \o (IF t.fps # "undefined" THEN <<<<"-r">>, <<t.fps>>>> ELSE <<>>)
           \o (IF policy = "nvenc" THEN <<<<"-preset">>, <<"p4">>>> ELSE <<>>)
           \o (IF policy = "cpu" THEN <<<<"-preset">>, <<"veryfast">>>> ELSE <<>>))
  \o (IF t.audioCodec = "none" THEN <<<<"-an">>>>
      ELSE IF t.audioCodec = "copy" THEN <<<<"-c:a">>, <<"copy">>>>
      ELSE IF t.audioCodec = "aac" THEN <<<<"-c:a">>, <<"aac">>, <<"-b:a">>, <<"128k">>>>
      ELSE <<<<"-c:a">>, <<"libopus">>, <<"-b:a">>, <<"96k">>>>)
  \o <<<<"-rtsp_transport">>, <<t.transport>>>>
  \o <<<<"-muxdelay">>, <<"0.1">>>>
  \o <<<<"-f">>, <<"rtsp">>, outputUrl>>

\* Lines 125-193.
buildFFmpegCommand(t, settings, caps) ==
  LET sel == selectEncoder(t, settings, caps)
      pathSegment == safeSegment(t.path)
      outputUrl == outputUrlOf(settings, pathSegment)
  IN IF sel.error # "none"
     THEN [NoBuilt EXCEPT !.error = sel.error, !.missing = sel.encoder]
     ELSE IF pathSegment = <<>>
     THEN [NoBuilt EXCEPT !.error = "InvalidTask"]
     ELSE [error |-> "none", missing |-> "none",
           args |-> argsOf(t, sel.policy, sel.encoder, outputUrl),
           outputUrl |-> outputUrl,
           selectedPolicy |-> sel.policy,
           videoEncoder |-> sel.encoder]

\* The file declares buildFFmpegCommand twice, lines 125-193 and lines
\* 314-381; which of the two a build binds the name to is not fixed by the
\* source.  The declarations differ in the output URL only.
Declarations == {"first", "second"}

buildFFmpegCommandAs(declaration, t, settings, caps) ==
  LET first == buildFFmpegCommand(t, settings, caps)
      outputUrl == outputUrlOfSecond(settings, safeSegment(t.path))
  IN IF declaration = "first" \/ first.error # "none"
     THEN first
     ELSE [first EXCEPT !.outputUrl = outputUrl,
                        !.args = argsOf(t, first.selectedPolicy, first.videoEncoder, outputUrl)]

\* The task definitions, settings and snapshots a synthesis is tried on.
TaskShapes ==
  {[inputFile |-> "/v/a.mp4", path |-> <<"a">>, transport |-> "tcp", loop |-> TRUE,
    audioCodec |-> "aac", bitrateKbps |-> "2500", fps |-> "30"],
   [inputFile |-> "/v/a.mp4", path |-> <<"a">>, transport |-> "udp", loop |-> FALSE,
    audioCodec |-> "none", bitrateKbps |-> "undefined", fps |-> "undefined"],
   [inputFile |-> "/v/a.mp4", path |-> <<"a", " ", "a">>, transport |-> "tcp", loop |-> FALSE,
    audioCodec |-> "copy", bitrateKbps |-> "undefined", fps |-> "30"],
   [inputFile |-> "/v/a.mp4", path |-> <<"/">>, transport |-> "tcp", loop |-> FALSE,
    audioCodec |-> "opus", bitrateKbps |-> "2500", fps |-> "undefined"]}

BuildTasks ==
  {[inputFile |-> f.inputFile, path |-> f.path, transport |-> f.transport, loop |-> f.loop,
    audioCodec |-> f.audioCodec, bitrateKbps |-> f.bitrateKbps, fps |-> f.fps,
    hwAccel |-> h, videoCodec |-> v] : f \in TaskShapes, h \in Policies, v \in VideoCodecs}

BuildSettings ==
  [listenHost : Hosts, listenPort : {"8554"}, enableAuth : BOOLEAN,
   authUsername : {"rtspuser"}, authPassword : {"p@ss w"}, defaultHwAccelPolicy : Policies]

\* Line 106 of stream-job-manager.ts: buildFFmpegCommand returns.
BuildReturns ==
  /\ cmd.phase = "asked"
  /\ buildFFmpegCommand(cmd.task, cmd.settings, cmd.caps).error = "none"
  /\ \E declaration \in Declarations :
       cmd' = [cmd EXCEPT !.phase = "returned",
                          !.out = buildFFmpegCommandAs(declaration, cmd.task, cmd.settings, cmd.caps)]
  /\ UNCHANGED <<taskVars, configFile, serverVars, appVars, teardown>>

\* Line 106 of stream-job-manager.ts: buildFFmpegCommand throws.
BuildThrows ==
  /\ cmd.phase = "asked"
  /\ buildFFmpegCommand(cmd.task, cmd.settings, cmd.caps).error # "none"
  /\ cmd' = [cmd EXCEPT !.phase = "threw",
                        !.out = buildFFmpegCommand(cmd.task, cmd.settings, cmd.caps)]
  /\ UNCHANGED <<taskVars, configFile, serverVars, appVars, teardown>>

\* A synthesis about to be made, on any of the inputs.
BuildInit ==
  /\ cmd \in {[phase |-> "asked", task |-> t, settings |-> s, caps |-> c, out |-> NoBuilt] :
               t \in BuildTasks, s \in BuildSettings, c \in CapSnapshots}
  /\ stored = {}
  /\ task = [i \in TaskIds |-> NoTask]
  /\ nextId = 0
  /\ TypeInit
  /\ configFile = FileRead
  /\ ServerIdle
  /\ AppIdle

BuildNext == BuildReturns \/ BuildThrows

BuildSpec == BuildInit /\ [][BuildNext]_vars

\* ------------------------------------------------------------------ SettingsStore.init
\* What config.json can hold for a task: any of the five statuses or another
\* value, a raw path, and whether id, name and inputFile are all there.
RawStatuses == {"created", "starting", "running", "stopped", "error", "paused"}

LoadPaths == {<<>>, <<"/">>, <<"a">>, <<"/", "a">>}

RawTasks == [status : RawStatuses, path : LoadPaths, whole : BOOLEAN]

\* config.json: unreadable, not JSON, or a list of raw tasks.
ConfigFiles ==
  {[phase |-> "unread", kind |-> k, tasks |-> <<>>] : k \in {"missing", "garbage"}}
  \cup {[phase |-> "unread", kind |-> "json", tasks |-> t] :
          t \in UNION {[1..n -> RawTasks] : n \in 0..MaxTasks}}

\* settings-store.ts lines 50-56.
toStreamStatus(value) ==
  IF value \in {"created", "starting", "running", "stopped", "error"} THEN value ELSE "created"

\* settings-store.ts lines 59-66: normalizeTask keeps the task.
keepsTask(raw) == raw.whole /\ raw.path # <<>> /\ Normalized[raw.path] # <<>>

\* The coercion that forgets 'starting': a faulty variant used to show that
\* the reconciliation property depends on the test of line 325.
coerceRunningOnly(status) ==
  IF status = "running" THEN "stopped" ELSE status

\* settings-store.ts lines 325-328: a task persisted as live is loaded stopped.
coerceStatus(status) ==
  IF status = "running" \/ status = "starting" THEN "stopped" ELSE status

\* settings-store.ts lines 58-92, 320-330: the task as loaded.
normalizeTask(raw) ==
  [NoTask EXCEPT !.status = coerceStatus(toStreamStatus(raw.status)),
                 !.path = Normalized[raw.path]]

\* Lines 106-112: init reads and parses the file, normalizes the
\* configuration and awaits the write.
InitLoad ==
  /\ configFile.phase = "unread" /\ configFile.kind = "json"
  /\ LET raw == configFile.tasks
     IN /\ stored' = {i \in 1..Len(raw) : keepsTask(raw[i])}
        /\ task' = [i \in TaskIds |->
                      IF i <= Len(raw) /\ keepsTask(raw[i]) THEN normalizeTask(raw[i]) ELSE NoTask]
        /\ nextId' = Len(raw)
  /\ configFile' = [configFile EXCEPT !.phase = "read"]
  /\ saveQueue' = persist(saveQueue, "init", NewSlot, NoProc)
  /\ calls' = [calls EXCEPT ![NewSlot] = [FreeSlot EXCEPT !.op = "init", !.pc = "persist"]]
  /\ UNCHANGED <<jobs, stopping, proc, events, hist, lastRet, serverVars, cmd, appVars, teardown>>

\* Lines 113-119: the file cannot be read or parsed; init starts from the
\* default configuration and awaits the write.
InitFallback ==
  /\ configFile.phase = "unread" /\ configFile.kind # "json"
  /\ configFile' = [configFile EXCEPT !.phase = "read"]
  /\ saveQueue' = persist(saveQueue, "init", NewSlot, NoProc)
  /\ calls' = [calls EXCEPT ![NewSlot] = [FreeSlot EXCEPT !.op = "init", !.pc = "persist"]]
  /\ UNCHANGED <<stored, task, nextId, jobs, stopping, proc, events, hist, lastRet, serverVars, cmd, appVars, teardown>>

\* Lines 112, 119: the write is done; init returns.
InitPersisted ==
  /\ saveQueue # <<>> /\ Head(saveQueue).k = "init"
  /\ calls' = [calls EXCEPT ![Head(saveQueue).c] = FreeSlot]
  /\ saveQueue' = Tail(saveQueue)
  /\ UNCHANGED <<stored, task, nextId, jobs, stopping, proc, events, hist, lastRet,
                 configFile, serverVars, cmd, appVars, teardown>>

\* The application before the store is initialized, over any config.json.
LoadInit ==
  /\ configFile \in ConfigFiles
  /\ stored = {}
  /\ task = [i \in TaskIds |-> NoTask]
  /\ nextId = 0
  /\ TypeInit
  /\ ServerIdle
  /\ AppIdle
  /\ cmd = NoCmd

LoadNext == InitLoad \/ InitFallback \/ InitPersisted

LoadSpec == LoadInit /\ [][LoadNext]_vars


\* ------------------------------------------------------------------ RTSPServerManager
\* The settings a caller hands to start or restart.
ServerSettings == {"s1", "s2"}

Serving == {"running", "starting"}

\* The next-tick queue is empty: the 'spawn' or 'error' notification of a
\* relay launch is delivered before any I/O completion, timer or request.
ServerQuiet == \A q \in ProcIds : child[q].st # "launching"

\* A request can arrive: nothing is queued for the next tick, and the close
\* notification of a failed relay launch is not pending.
ServerMayIssue ==
  /\ ServerQuiet
  /\ \A q \in ProcIds : child[q].st # "failed"

NewCall == CHOOSE c \in Slots : scalls[c].op = "free" /\ \A d \in Slots : d < c => scalls[d].op # "free"

NewChild == CHOOSE q \in ProcIds : child[q].st = "none" /\ \A r \in ProcIds : r < q => child[r].st # "none"

\* Relay launches made or still possible for the calls in progress.
ServerStarts ==
  Cardinality({q \in ProcIds : child[q].st # "none"})
    + Cardinality({c \in Slots : scalls[c].op \in {"start", "restart"}})

\* rtsp-server-manager.ts line 87: start's already-serving test.
alreadyServing(srv) == srv.process # NoProc /\ srv.state \in Serving

\* Line 167: the test the 3-second timer of stop makes before SIGKILL.
serverTimerKills(ch, p) == ch[p].exitCode = "null"

\* Lines 86-91 from the caller's side: start returns at once when already
\* serving and otherwise awaits the binary check.
enterStart(call, srv) ==
  IF alreadyServing(srv) THEN FreeCall ELSE [call EXCEPT !.pc = "bin"]

\* Lines 149-152 and 177-179: the promise stop awaits is resolved; stop
\* returns, restart goes on to start(settings).
afterStop(call, srv) ==
  IF call.op = "stop" THEN FreeCall ELSE enterStart(call, srv)

\* Lines 86-89.  index.ts lines 140-142: rtspServer:start.
IssueServerStart(settings) ==
  /\ UNCHANGED <<taskVars, configFile, cmd, appVars, teardown>>
  /\ ServerMayIssue
  /\ ServerStarts < MaxStarts
  /\ \E c \in Slots : scalls[c].op = "free"
  /\ scalls' = [scalls EXCEPT ![NewCall] =
                  enterStart([FreeCall EXCEPT !.op = "start", !.settings = settings], server)]
  /\ UNCHANGED <<server, child>>

\* index.ts lines 80-87: ensureServerRunning looks at the state alone and
\* calls start when the server is neither running nor starting.
EnsureServerRunning(settings) ==
  /\ UNCHANGED <<taskVars, configFile, cmd, appVars, teardown>>
  /\ ServerMayIssue
  /\ ServerStarts < MaxStarts
  /\ \E c \in Slots : scalls[c].op = "free"
  /\ IF server.state \in Serving
     THEN UNCHANGED scalls
     ELSE scalls' = [scalls EXCEPT ![NewCall] =
                       enterStart([FreeCall EXCEPT !.op = "start", !.settings = settings], server)]
  /\ UNCHANGED <<server, child>>

\* Lines 182-189: the binary is missing or not readable; start rejects.
ServerBinaryMissing(c) ==
  /\ UNCHANGED <<taskVars, configFile, cmd, appVars, teardown>>
  /\ ServerQuiet
  /\ scalls[c].pc = "bin"
  /\ scalls' = [scalls EXCEPT ![c] = FreeCall]
  /\ UNCHANGED <<server, child>>

\* Lines 91-92: the binary check is done; start awaits mkdir.
ServerBinaryOk(c) ==
  /\ UNCHANGED <<taskVars, configFile, cmd, appVars, teardown>>
  /\ ServerQuiet
  /\ scalls[c].pc = "bin"
  /\ scalls' = [scalls EXCEPT ![c].pc = "mkdir"]
  /\ UNCHANGED <<server, child>>

\* Lines 92-95: the runtime directory exists; start awaits writeFile.
ServerDirMade(c) ==
  /\ UNCHANGED <<taskVars, configFile, cmd, appVars, teardown>>
  /\ ServerQuiet
  /\ scalls[c].pc = "mkdir"
  /\ scalls' = [scalls EXCEPT ![c].pc = "write"]
  /\ UNCHANGED <<server, child>>

\* Lines 92, 95: mkdir or writeFile fails; start rejects.
ServerFsFails(c) ==
  /\ UNCHANGED <<taskVars, configFile, cmd, appVars, teardown>>
  /\ ServerQuiet
  /\ scalls[c].pc \in {"mkdir", "write"}
  /\ scalls' = [scalls EXCEPT ![c] = FreeCall]
  /\ UNCHANGED <<server, child>>

\* Lines 95-146: mediamtx.yml is written; start sets 'starting', clears
\* stopRequested, spawns the relay, registers it and returns.
ServerSpawn(c) ==
  /\ UNCHANGED <<taskVars, configFile, cmd, appVars, teardown>>
  /\ ServerQuiet
  /\ scalls[c].pc = "write"
  /\ \E q \in ProcIds : child[q].st = "none"
  /\ LET p == NewChild
     IN /\ child' = [child EXCEPT ![p] = [NoChild EXCEPT !.st = "launching", !.conf = scalls[c].settings]]
        /\ server' = [process |-> p, state |-> "starting", stopRequested |-> FALSE,
                      conf |-> scalls[c].settings]
  /\ scalls' = [scalls EXCEPT ![c] = FreeCall]

\* Lines 107-109: 'spawn' is delivered.
ServerOnSpawn(p) ==
  /\ UNCHANGED <<taskVars, configFile, cmd, appVars, teardown>>
  /\ child[p].st = "launching"
  /\ child' = [child EXCEPT ![p].st = "up"]
  /\ server' = [server EXCEPT !.state = "running"]
  /\ UNCHANGED scalls

\* Lines 111-117: the launch failed; 'error' is delivered.
ServerOnError(p) ==
  /\ UNCHANGED <<taskVars, configFile, cmd, appVars, teardown>>
  /\ child[p].st = "launching"
  /\ child' = [child EXCEPT ![p].st = "failed", ![p].exitCode = "neg"]
  /\ server' = [server EXCEPT !.state = "error", !.process = NoProc]
  /\ UNCHANGED scalls

\* The relay ends and Node reaps it: with exit code 0, with another exit
\* code, or killed by a signal (exitCode stays null).
ServerExit(p, how) ==
  /\ UNCHANGED <<taskVars, configFile, cmd, appVars, teardown>>
  /\ ServerQuiet
  /\ child[p].st = "up"
  /\ child' = [child EXCEPT ![p].st = "exited",
                            ![p].exitCode = IF how = "signal" THEN "null" ELSE how]
  /\ UNCHANGED <<server, scalls>>

\* Lines 119-133, then 173-176: 'close' is delivered; start's handler records
\* the state, then the stop calls waiting for this relay are resolved.
ServerOnClose(p) ==
  /\ UNCHANGED <<taskVars, configFile, cmd, appVars, teardown>>
  /\ ServerQuiet
  /\ child[p].st \in {"exited", "failed"}
  /\ LET normalStop == server.stopRequested
         state == IF normalStop THEN "stopped" ELSE "error"
         srv == [server EXCEPT !.state = state, !.process = NoProc, !.stopRequested = FALSE]
         waiting == {c \in Slots : scalls[c].pc = "wait" /\ scalls[c].p = p}
     IN /\ server' = srv
        /\ child' = [child EXCEPT ![p].st = "closed", ![p].rec = state,
                                  ![p].stopRet = @ \/ waiting # {}]
        /\ scalls' = [c \in Slots |-> IF c \in waiting THEN afterStop(scalls[c], srv) ELSE scalls[c]]

\* Lines 154-177: stop without a relay sets 'stopped' and returns; with one it
\* sets stopRequested, sends SIGTERM and waits for close or the timer.
stopServer(call) ==
  IF server.process = NoProc
  THEN LET srv == [server EXCEPT !.state = "stopped"]
       IN /\ server' = srv
          /\ UNCHANGED child
          /\ scalls' = [scalls EXCEPT ![NewCall] = afterStop(call, srv)]
  ELSE /\ server' = [server EXCEPT !.stopRequested = TRUE]
       /\ child' = [Kill(child, server.process, "SIGTERM") EXCEPT ![server.process].stopReq = TRUE]
       /\ scalls' = [scalls EXCEPT ![NewCall] = [call EXCEPT !.pc = "wait", !.p = server.process]]

\* index.ts lines 144-146 and 221-224: rtspServer:stop, before-quit.
IssueServerStop ==
  /\ UNCHANGED <<taskVars, configFile, cmd, appVars, teardown>>
  /\ ServerMayIssue
  /\ \E c \in Slots : scalls[c].op = "free"
  /\ stopServer([FreeCall EXCEPT !.op = "stop"])

\* Lines 149-152.  index.ts lines 128-131: settings:set restarts a server
\* that is running or starting.
IssueServerRestart(settings) ==
  /\ UNCHANGED <<taskVars, configFile, cmd, appVars, teardown>>
  /\ ServerMayIssue
  /\ server.state \in Serving
  /\ ServerStarts < MaxStarts
  /\ \E c \in Slots : scalls[c].op = "free"
  /\ stopServer([FreeCall EXCEPT !.op = "restart", !.settings = settings])

\* Lines 166-171: the 3-second timer of a waiting stop fires.
ServerStopTimer(c) ==
  /\ UNCHANGED <<taskVars, configFile, cmd, appVars, teardown>>
  /\ ServerQuiet
  /\ scalls[c].pc = "wait"
  /\ child' = IF serverTimerKills(child, scalls[c].p)
              THEN Kill(child, scalls[c].p, "SIGKILL") ELSE child
  /\ scalls' = [scalls EXCEPT ![c] = afterStop(scalls[c], server)]
  /\ UNCHANGED server

ServerNext ==
  \/ \E settings \in ServerSettings : IssueServerStart(settings)
  \/ \E settings \in ServerSettings : EnsureServerRunning(settings)
  \/ \E settings \in ServerSettings : IssueServerRestart(settings)
  \/ IssueServerStop
  \/ \E c \in Slots : ServerBinaryMissing(c)
  \/ \E c \in Slots : ServerBinaryOk(c)
  \/ \E c \in Slots : ServerDirMade(c)
  \/ \E c \in Slots : ServerFsFails(c)
  \/ \E c \in Slots : ServerSpawn(c)
  \/ \E p \in ProcIds : ServerOnSpawn(p)
  \/ \E p \in ProcIds : ServerOnError(p)
  \/ \E p \in ProcIds, how \in ExitKinds : ServerExit(p, how)
  \/ \E p \in ProcIds : ServerOnClose(p)
  \/ \E c \in Slots : ServerStopTimer(c)

ServerSpec == Init /\ [][ServerNext]_vars

\* ------------------------------------------------------------------ FFmpegCapabilityDetector.scan
MaxScans == 3       \* scanCapabilities calls issued in one behaviour

\* What the two ffmpeg runs of a scan can report.
ProbeResults == {capabilityOf({}), capabilityOf({"h264_nvenc"}), capabilityOf({"h264_qsv", "hevc_qsv"})}

\* The cache test that takes only a successful snapshot: a faulty variant used
\* to show that the caching property depends on the test of line 92 holding
\* for an 'unavailable' snapshot too.
usesCacheIfAvailable(cache, force) == cache # {} /\ (\A snap \in cache : snap.available) /\ ~force

\* ffmpeg-capability-detector.ts line 92 and index.ts line 90: the cache holds
\* a snapshot and the scan is not forced.
usesCache(cache, force) == cache # {} /\ ~force

\* Lines 98-101, 130-131, 133-135, index.ts lines 94-95: the scan of call c
\* ends with a snapshot; both caches take it and the call returns it.
scanEnds(c, snap) ==
  scan' = [scan EXCEPT !.cache = {snap}, !.cached = {snap}, !.ret = {snap}, !.calls[c] = FreeScan]

\* index.ts lines 89-95 and 174-176, detector lines 91-96: scanCapabilities
\* answers from its cache, or calls scan, which answers from the detector's
\* cache or starts with the check of the binary.
IssueScan(force) ==
  /\ UNCHANGED <<taskVars, configFile, serverVars, cmd, disk, config, teardown>>
  /\ scan.issued < MaxScans
  /\ \E c \in Slots : scan.calls[c].pc = "free"
  /\ LET c == CHOOSE d \in Slots :
                scan.calls[d].pc = "free" /\ \A e \in Slots : e < d => scan.calls[e].pc # "free"
     IN IF usesCache(scan.cached, force)
        THEN scan' = [scan EXCEPT !.issued = @ + 1, !.hits = @ + 1, !.ret = scan.cached]
        ELSE IF usesCache(scan.cache, force)
        THEN scan' = [scan EXCEPT !.issued = @ + 1, !.hits = @ + 1,
                                  !.cached = scan.cache, !.ret = scan.cache]
        ELSE scan' = [scan EXCEPT !.issued = @ + 1,
                                  !.calls[c] = [pc |-> "access", force |-> force]]

\* Lines 96-103: the binary is missing or not executable.
ScanBinaryMissing(c) ==
  /\ UNCHANGED <<taskVars, configFile, serverVars, cmd, disk, config, teardown>>
  /\ scan.calls[c].pc = "access"
  /\ scanEnds(c, unavailable)

\* Lines 96-109: the binary is there; the two ffmpeg runs are launched.
ScanBinaryOk(c) ==
  /\ UNCHANGED <<taskVars, configFile, serverVars, cmd, disk, config, teardown>>
  /\ scan.calls[c].pc = "access"
  /\ scan' = [scan EXCEPT !.probes = @ + 1, !.calls[c].pc = "probe"]

\* Lines 105-131: both runs closed; their output is parsed.
ScanProbed(c, snap) ==
  /\ UNCHANGED <<taskVars, configFile, serverVars, cmd, disk, config, teardown>>
  /\ scan.calls[c].pc = "probe"
  /\ scanEnds(c, snap)

\* Lines 132-136: a run timed out or could not be launched.
ScanProbeFails(c) ==
  /\ UNCHANGED <<taskVars, configFile, serverVars, cmd, disk, config, teardown>>
  /\ scan.calls[c].pc = "probe"
  /\ scanEnds(c, unavailable)

ScanNext ==
  \/ \E force \in BOOLEAN : IssueScan(force)
  \/ \E c \in Slots : ScanBinaryMissing(c)
  \/ \E c \in Slots : ScanBinaryOk(c)
  \/ \E c \in Slots, snap \in ProbeResults : ScanProbed(c, snap)
  \/ \E c \in Slots : ScanProbeFails(c)

ScanSpec == Init /\ [][ScanNext]_vars

\* ------------------------------------------------------------------ SettingsStore.persist
MaxWrites == 4      \* persist calls made in one behaviour

\* The chain test that lets any queued write start: a faulty variant used to
\* show that the ordering property depends on each callback being chained on
\* the promise of the one before it.
startsUnchained(links, k) == TRUE

\* settings-store.ts lines 344-346: the callback of link k is chained with
\* then() on the promise of link k-1, so it runs once every earlier write has
\* been fulfilled, and never if one of them was rejected.
startsAfter(links, k) == \A j \in 1..(k - 1) : links[j].st = "done"

\* Lines 276-290 and 339-348: a store operation on task id changes the
\* record in memory and calls persist, which serializes the configuration as
\* it is now and chains the write; the operation then waits for the chain.
\* before is the configuration in memory when the operation was called.
PersistUpdate(id) ==
  /\ UNCHANGED <<taskVars, configFile, serverVars, cmd, scan, config, teardown>>
  /\ Len(disk.links) < MaxWrites
  /\ LET next == [disk.mem EXCEPT ![id] = @ + 1]
     IN disk' = [disk EXCEPT !.mem = next,
                             !.links = Append(@, [content |-> next, st |-> "queued",
                                                  before |-> disk.mem])]

\* Line 345: the callback of link k runs and calls fs.writeFile.
WriteFileStarts(k) ==
  /\ UNCHANGED <<taskVars, configFile, serverVars, cmd, scan, config, teardown>>
  /\ k \in 1..Len(disk.links)
  /\ disk.links[k].st = "queued"
  /\ startsAfter(disk.links, k)
  /\ disk' = [disk EXCEPT !.links[k].st = "writing"]

\* Line 345: the write of link k is complete.
WriteFileDone(k) ==
  /\ UNCHANGED <<taskVars, configFile, serverVars, cmd, scan, config, teardown>>
  /\ k \in 1..Len(disk.links)
  /\ disk.links[k].st = "writing"
  /\ disk' = [disk EXCEPT !.links[k].st = "done", !.file = disk.links[k].content]

\* Line 345: the write of link k is rejected (disk full, no permission); the
\* promise of the chain is rejected with it.
WriteFileFails(k) ==
  /\ UNCHANGED <<taskVars, configFile, serverVars, cmd, scan, config, teardown>>
  /\ k \in 1..Len(disk.links)
  /\ disk.links[k].st = "writing"
  /\ disk' = [disk EXCEPT !.links[k].st = "failed"]

\* Lines 344-348: the promise link k is chained on was rejected, so then()
\* never runs the callback of link k: its promise is rejected with the same
\* error and no write is made for it.
WriteFileSkipped(k) ==
  /\ UNCHANGED <<taskVars, configFile, serverVars, cmd, scan, config, teardown>>
  /\ k \in 2..Len(disk.links)
  /\ disk.links[k].st = "queued"
  /\ disk.links[k - 1].st \in {"failed", "skipped"}
  /\ disk' = [disk EXCEPT !.links[k].st = "skipped"]

PersistNext ==
  \/ \E id \in TaskIds : PersistUpdate(id)
  \/ \E k \in 1..MaxWrites : WriteFileStarts(k)
  \/ \E k \in 1..MaxWrites : WriteFileDone(k)
  \/ \E k \in 1..MaxWrites : WriteFileFails(k)
  \/ \E k \in 1..MaxWrites : WriteFileSkipped(k)

PersistSpec == Init /\ [][PersistNext]_vars

\* ------------------------------------------------------------------ SettingsStore settings
MaxRuns == 2        \* runs of the application, each starting with init
MaxFields == 2      \* fields named by one updateSettings call

SettingsFields ==
  {"listenHost", "listenPort", "enableAuth", "authUsername", "authPassword", "defaultHwAccelPolicy"}

\* A number: a whole one, or one with a fractional part.
Port(n) == [int |-> TRUE, n |-> n]
Fraction == [int |-> FALSE, n |-> 1]

\* What a caller of updateSettings can put in each field.
FieldValues ==
  [listenHost |-> {"", "0.0.0.0"},
   listenPort |-> {Port(0), Port(65535), Port(65536), Fraction},
   enableAuth |-> BOOLEAN,
   authUsername |-> {"", "u"},
   authPassword |-> {"", "p"},
   defaultHwAccelPolicy |-> {"cpu"}]

\* What config.json can hold in each field.
RawValues == [FieldValues EXCEPT !.defaultHwAccelPolicy = {"nvenc", "fastest"}]

Named(partial) == {f \in SettingsFields : partial[f] # {}}

Objects(values) ==
  [listenHost : {{}} \cup {{v} : v \in values.listenHost},
   listenPort : {{}} \cup {{v} : v \in values.listenPort},
   enableAuth : {{}} \cup {{v} : v \in values.enableAuth},
   authUsername : {{}} \cup {{v} : v \in values.authUsername},
   authPassword : {{}} \cup {{v} : v \in values.authPassword},
   defaultHwAccelPolicy : {{}} \cup {{v} : v \in values.defaultHwAccelPolicy}]

\* Partial<AppSettings>: the payloads of settings:set.
Partials == {partial \in Objects(FieldValues) : Cardinality(Named(partial)) <= MaxFields}

\* What crypto.randomBytes can give createPassword.
GeneratedPasswords == {"r1", "r2"}

\* The tasks of a config.json not written by the application.
RawTaskLists ==
  {<<>>, <<[status |-> "running", lastError |-> "none"]>>,
         <<[status |-> "finished", lastError |-> "boom"]>>}

SettingsFiles ==
  {[kind |-> "missing", settings |-> NoSettings, tasks |-> <<>>]}
  \cup {[kind |-> "json", settings |-> raw, tasks |-> t] :
          raw \in Objects(RawValues), t \in RawTaskLists}

\* JavaScript truthiness of a string field: present and not empty.
truthy(field) == field # {} /\ field # {""}

\* settings-store.ts lines 18-26.
defaultSettings(password) ==
  [NoSettings EXCEPT !.listenHost = {"127.0.0.1"}, !.listenPort = {Port(8554)},
                     !.authUsername = {"rtspuser"}, !.authPassword = {password},
                     !.defaultHwAccelPolicy = {"auto"}]

\* Lines 303-318: the settings as loaded.  The object is built from five
\* fields; a port is taken when it is a whole number above zero.
normalizeSettings(raw, password) ==
  [NoSettings EXCEPT
     !.listenHost = IF truthy(raw.listenHost) THEN raw.listenHost ELSE {"127.0.0.1"},
     !.listenPort = IF raw.listenPort # {} /\ \A v \in raw.listenPort : v.int /\ v.n > 0
                    THEN raw.listenPort ELSE {Port(8554)},
     !.authUsername = IF truthy(raw.authUsername) THEN raw.authUsername ELSE {"rtspuser"},
     !.authPassword = IF truthy(raw.authPassword) THEN raw.authPassword ELSE {password},
     !.defaultHwAccelPolicy =
        IF raw.defaultHwAccelPolicy \subseteq {"cpu", "qsv", "videotoolbox", "nvenc"}
           /\ raw.defaultHwAccelPolicy # {}
        THEN raw.defaultHwAccelPolicy ELSE {"auto"}]

\* Lines 58-92 and 320-330, for the status and lastError of a task.
loadedTask(raw) ==
  [status |-> coerceStatus(toStreamStatus(raw.status)), lastError |-> raw.lastError]

\* Lines 134-137: { ...config.settings, ...partial }.
merged(current, partial) ==
  [f \in SettingsFields |-> IF partial[f] # {} THEN partial[f] ELSE current[f]]

\* Lines 139-153: the error updateSettings throws for the merged settings.
updateError(next) ==
  IF ~truthy(next.listenHost) THEN "listenHost is required"
  ELSE IF \E v \in next.listenPort : ~v.int \/ v.n <= 0 \/ v.n > 65535
  THEN "listenPort must be between 1 and 65535"
  ELSE IF ~truthy(next.authUsername) THEN "authUsername is required"
  ELSE IF ~truthy(next.authPassword) THEN "authPassword is required"
  ELSE "ok"

\* Lines 339-348 with the write complete: config.json holds the configuration.
written(settings, tasks) == [kind |-> "json", settings |-> settings, tasks |-> tasks]

\* Lines 106-112: init reads config.json and normalizes it, then writes it.
SettingsLoad(password) ==
  /\ UNCHANGED <<taskVars, configFile, serverVars, cmd, scan, disk, teardown>>
  /\ config.phase = "unread" /\ config.file.kind = "json"
  /\ LET settings == normalizeSettings(config.file.settings, password)
         tasks == [i \in 1..Len(config.file.tasks) |-> loadedTask(config.file.tasks[i])]
     IN config' = [config EXCEPT !.phase = "loaded", !.settings = settings, !.tasks = tasks,
                                 !.file = written(settings, tasks), !.before = {}]

\* Lines 113-119: no readable config.json; init starts from the defaults.
SettingsFallback(password) ==
  /\ UNCHANGED <<taskVars, configFile, serverVars, cmd, scan, disk, teardown>>
  /\ config.phase = "unread" /\ config.file.kind # "json"
  /\ LET settings == defaultSettings(password)
     IN config' = [config EXCEPT !.phase = "loaded", !.settings = settings, !.tasks = <<>>,
                                 !.file = written(settings, <<>>), !.before = {}]

\* Lines 131-158: updateSettings merges, validates, stores and writes.
UpdateSettings(partial) ==
  /\ UNCHANGED <<taskVars, configFile, serverVars, cmd, scan, disk, teardown>>
  /\ config.phase = "loaded"
  /\ LET next == merged(config.settings, partial)
     IN IF updateError(next) = "ok"
        THEN config' = [config EXCEPT !.settings = next, !.ret = "ok",
                                      !.file = written(next, config.tasks)]
        ELSE config' = [config EXCEPT !.ret = updateError(next)]

\* Lines 160-194: createTask adds a record with status 'created' and writes.
SettingsCreateTask ==
  /\ UNCHANGED <<taskVars, configFile, serverVars, cmd, scan, disk, teardown>>
  /\ config.phase = "loaded" /\ config.tasks = <<>>
  /\ LET tasks == <<[status |-> "created", lastError |-> "none"]>>
     IN config' = [config EXCEPT !.tasks = tasks, !.file = written(config.settings, tasks)]

\* Lines 276-290: updateTaskRuntimeState sets status and lastError and writes.
SettingsTaskState(status) ==
  /\ UNCHANGED <<taskVars, configFile, serverVars, cmd, scan, disk, teardown>>
  /\ config.phase = "loaded" /\ config.tasks # <<>>
  /\ LET tasks == <<[status |-> status,
                     lastError |-> IF status = "error" THEN "boom" ELSE "none"]>>
     IN config' = [config EXCEPT !.tasks = tasks, !.file = written(config.settings, tasks)]

\* The application quits with every write complete and is launched again:
\* a new store is constructed over the config.json the last run left.
Relaunch ==
  /\ UNCHANGED <<taskVars, configFile, serverVars, cmd, scan, disk, teardown>>
  /\ config.phase = "loaded" /\ config.runs < MaxRuns
  /\ config' = [config EXCEPT !.phase = "unread", !.settings = NoSettings, !.tasks = <<>>,
                              !.before = {[settings |-> config.settings, tasks |-> config.tasks]},
                              !.runs = @ + 1, !.ret = "none"]

\* The application before the store is initialized, over any config.json.
SettingsInit ==
  /\ config \in {[NoConfig EXCEPT !.file = file] : file \in SettingsFiles}
  /\ stored = LoadedIds
  /\ task = [i \in TaskIds |-> IF i \in LoadedIds THEN [NoTask EXCEPT !.path = InitPath(i)] ELSE NoTask]
  /\ nextId = Loaded
  /\ TypeInit
  /\ configFile = FileRead
  /\ ServerIdle
  /\ scan = NoScan /\ disk = NoDisk /\ teardown = NoTeardown
  /\ cmd = NoCmd

SettingsNext ==
  \/ \E password \in GeneratedPasswords : SettingsLoad(password)
  \/ \E password \in GeneratedPasswords : SettingsFallback(password)
  \/ \E partial \in Partials : UpdateSettings(partial)
  \/ SettingsCreateTask
  \/ \E status \in {"starting", "running", "stopped", "error"} : SettingsTaskState(status)
  \/ Relaunch

SettingsSpec == SettingsInit /\ [][SettingsNext]_vars

\* ------------------------------------------------------------------ stopAll
\* The orders in which a Map can list the keys in S: the keys come in the
\* order of their insertion.
Orderings(S) ==
  {o \in [1..Cardinality(S) -> S] : \A i, j \in 1..Cardinality(S) : i # j => o[i] # o[j]}

\* stream-job-manager.ts lines 218-219, with stopTask lines 178-211: the
\* loop calls stopTask for the first id of rest and awaits it.  A stopTask
\* that throws TaskNotFound rejects stopAll.
stopNext(ids, rest) ==
  LET id == Head(rest)
      c == NewSlot
  IN /\ IssueStop(id)
     /\ teardown' =
          IF id \notin stored
          THEN [teardown EXCEPT !.st = "rejected", !.ids = ids, !.rest = <<>>, !.awaiting = 0]
          ELSE [teardown EXCEPT !.st = "running", !.ids = ids, !.rest = Tail(rest),
                                !.awaiting = IF calls'[c].op = "free" THEN 0 ELSE c]

\* The stopTask call that stopAll awaits has returned: the continuation of
\* the loop is the next thing to run.
StopAllResumes ==
  /\ teardown.st = "running"
  /\ teardown.awaiting # 0 => calls[teardown.awaiting].op = "free"

\* Lines 216-219, index.ts lines 221-222: stopAll copies the keys of the jobs
\* map and enters the loop.
IssueStopAll(order) ==
  /\ teardown.st = "idle"
  /\ MayIssue
  /\ order \in Orderings({id \in TaskIds : jobs[id] # NoProc})
  /\ IF order = <<>>
     THEN /\ teardown' = [teardown EXCEPT !.st = "returned"]
          /\ UNCHANGED <<taskVars, configFile, serverVars, cmd, appVars>>
     ELSE stopNext({order[i] : i \in 1..Len(order)}, order)

\* Lines 218-220: the awaited stopTask returned; the loop goes on to the next
\* id, or stopAll returns.
StopAllNext ==
  /\ StopAllResumes
  /\ IF teardown.rest = <<>>
     THEN /\ teardown' = [teardown EXCEPT !.st = "returned", !.awaiting = 0]
          /\ UNCHANGED <<taskVars, configFile, serverVars, cmd, appVars>>
     ELSE stopNext(teardown.ids, teardown.rest)

\* The supervisor with every task of TaskIds loaded.
TeardownInit ==
  /\ stored = TaskIds
  /\ task = [i \in TaskIds |-> [NoTask EXCEPT !.path = InitPath(i)]]
  /\ nextId = MaxTasks
  /\ TypeInit
  /\ configFile = FileRead
  /\ ServerIdle
  /\ AppIdle
  /\ cmd = NoCmd

\* The continuation of the loop is a microtask of the step that ended the
\* awaited call: it runs before any other notification, timer or request.
TeardownNext ==
  \/ StopAllNext
  \/ ~StopAllResumes /\ \E order \in UNION {[1..n -> TaskIds] : n \in 0..MaxTasks} : IssueStopAll(order)
  \/ ~StopAllResumes /\ \E id \in TaskIds : IssueStart(id)
  \/ ~StopAllResumes /\ \E c \in Slots : StartBinaryOk(c)
  \/ ~StopAllResumes /\ \E c \in Slots : StartSetStarting(c)
  \/ ~StopAllResumes /\ StartSpawn
  \/ ~StopAllResumes /\ \E q \in ProcIds : OnSpawn(q)
  \/ ~StopAllResumes /\ \E q \in ProcIds, how \in ExitKinds : Exit(q, how)
  \/ ~StopAllResumes /\ \E q \in ProcIds : OnClose(q)
  \/ ~StopAllResumes /\ HandlerPersisted
  \/ ~StopAllResumes /\ StopReconciled
  \/ ~StopAllResumes /\ \E c \in Slots : StopTimer(c)

TeardownSpec == TeardownInit /\ [][TeardownNext]_vars

\* ------------------------------------------------------------------ before-quit
\* The application runs its event loop: not in the before-quit handler and
\* not exited.
HostRuns == teardown.host \in {"up", "quitting"}

MaxRelays == 1      \* relay subprocesses launched before the quit

\* Nothing has precedence over the next notification, timer or completion.
HostFree == HostRuns /\ ~StopAllResumes

\* index.ts line 221: Electron emits before-quit and the handler is entered.
BeforeQuit ==
  /\ teardown.host = "up" /\ teardown.st = "idle"
  /\ MayIssue /\ ServerMayIssue
  /\ \E c \in Slots : scalls[c].op = "free"
  /\ teardown' = [teardown EXCEPT !.host = "handler"]
  /\ UNCHANGED <<taskVars, configFile, serverVars, cmd, appVars>>

\* Line 222: void streamJobManager.stopAll(): stopAll runs up to its first
\* await and the promise is dropped.
QuitStopAll(order) ==
  /\ teardown.host = "handler" /\ teardown.st = "idle"
  /\ IssueStopAll(order)

\* Line 223: void rtspServerManager.stop(): stop runs up to its await and the
\* promise is dropped; the handler returns without preventing the quit.
QuitStopServer ==
  /\ teardown.host = "handler" /\ teardown.st # "idle"
  /\ stopServer([FreeCall EXCEPT !.op = "stop"])
  /\ teardown' = [teardown EXCEPT !.host = "quitting"]
  /\ UNCHANGED <<taskVars, configFile, cmd, appVars>>

\* Electron goes on with the quit the handler did not prevent: the windows
\* close and the process exits, whatever is still pending on the event loop.
HostExits ==
  /\ teardown.host = "quitting"
  /\ teardown' = [teardown EXCEPT !.host = "exited"]
  /\ UNCHANGED <<taskVars, configFile, serverVars, cmd, appVars>>

\* index.ts lines 164-168: stream:start brings the relay server up before it
\* calls startTask.  The requests come one at a time, while the application
\* is up and no other request is under way.
QuitIdle ==
  /\ teardown.host = "up"
  /\ \A c \in Slots : calls[c].op = "free" /\ scalls[c].op = "free"

QuitNext ==
  \/ BeforeQuit
  \/ \E order \in UNION {[1..n -> TaskIds] : n \in 0..MaxTasks} : QuitStopAll(order)
  \/ QuitStopServer
  \/ HostExits
  \/ HostRuns /\ StopAllNext
  \/ QuitIdle /\ server.state \in Serving /\ \E id \in TaskIds : IssueStart(id)
  \/ QuitIdle /\ ServerStarts < MaxRelays /\ EnsureServerRunning("s1")
  \/ HostFree /\ \E c \in Slots : StartBinaryOk(c)
  \/ HostFree /\ \E c \in Slots : StartSetStarting(c)
  \/ HostFree /\ StartSpawn
  \/ HostFree /\ \E q \in ProcIds : OnSpawn(q)
  \/ HostFree /\ \E q \in ProcIds, how \in ExitKinds : Exit(q, how)
  \/ HostFree /\ \E q \in ProcIds : OnClose(q)
  \/ HostFree /\ HandlerPersisted
  \/ HostFree /\ \E c \in Slots : StopTimer(c)
  \/ HostFree /\ \E c \in Slots : ServerBinaryOk(c)
  \/ HostFree /\ \E c \in Slots : ServerDirMade(c)
  \/ HostFree /\ \E c \in Slots : ServerSpawn(c)
  \/ HostFree /\ \E q \in ProcIds : ServerOnSpawn(q)
  \/ HostFree /\ \E q \in ProcIds, how \in ExitKinds : ServerExit(q, how)
  \/ HostFree /\ \E q \in ProcIds : ServerOnClose(q)
  \/ HostFree /\ \E c \in Slots : ServerStopTimer(c)

QuitSpec == TeardownInit /\ [][QuitNext]_vars

\* ------------------------------------------------------------------ settings:set
\* index.ts line 126 with settings-store.ts lines 155-156: settings:set calls
\* updateSettings, which stores the new settings and awaits the write.
IssueSettingsSet(settings) ==
  /\ UNCHANGED <<taskVars, configFile, serverVars, cmd, scan, disk, teardown>>
  /\ ServerMayIssue
  /\ config.setting = {}
  /\ config' = [config EXCEPT !.current = settings, !.setting = {settings}]

\* index.ts lines 128-133: the write is done; the handler reads the status
\* of the relay server, calls restart with the new settings if the server is
\* running or starting, and returns otherwise.
SettingsSetStored ==
  /\ UNCHANGED <<taskVars, configFile, cmd, scan, disk, teardown>>
  /\ ServerQuiet
  /\ config.setting # {}
  /\ config' = [config EXCEPT !.setting = {}]
  /\ IF server.state \in Serving
     THEN /\ ServerStarts < MaxStarts
          /\ \E c \in Slots : scalls[c].op = "free"
          /\ \E settings \in config.setting :
               stopServer([FreeCall EXCEPT !.op = "restart", !.settings = settings])
     ELSE UNCHANGED serverVars

\* The relay server with the handlers of index.ts as its callers: every start
\* is handed store.getSettings() (lines 80-87, 140-142).
ApplyNext ==
  \/ \E settings \in ServerSettings : IssueSettingsSet(settings)
  \/ SettingsSetStored
  \/ IssueServerStart(config.current)
  \/ EnsureServerRunning(config.current)
  \/ IssueServerStop
  \/ \E c \in Slots : ServerBinaryOk(c)
  \/ \E c \in Slots : ServerDirMade(c)
  \/ \E c \in Slots : ServerSpawn(c)
  \/ \E p \in ProcIds : ServerOnSpawn(p)
  \/ \E p \in ProcIds, how \in ExitKinds : ServerExit(p, how)
  \/ \E p \in ProcIds : ServerOnClose(p)
  \/ \E c \in Slots : ServerStopTimer(c)

ApplySpec == Init /\ [][ApplyNext]_vars

\* ------------------------------------------------------------------ claims
Running(p) == proc[p].st \in {"launching", "up"}

RECURSIVE IsPrefix(_, _)
IsPrefix(s, t) ==
  \/ s = <<>>
  \/ /\ t # <<>>
     /\ Head(s) = Head(t)
     /\ IsPrefix(Tail(s), Tail(t))

\* C1: in every reachable state, a stored task's status is 'running' or
\* 'starting' if and only if the jobs map holds a process handle for its id.
C1_StatusIffHandle ==
  \A id \in stored : (task[id].status \in {"running", "starting"}) <=> (jobs[id] # NoProc)

\* C2: at most one subprocess is alive for a task id at any time, and every
\* live subprocess is the one registered under its id in the jobs map.
C2_OneLiveProcess ==
  \A p \in ProcIds :
    Running(p) =>
      /\ jobs[proc[p].id] = p
      /\ \A q \in ProcIds : (Running(q) /\ proc[q].id = proc[p].id) => q = p

\* C3: when a stopTask that found a live process returns, the close
\* notification has been handled: the jobs map has no entry for the id and the
\* task's status is 'stopped'.
C3_StopReturnsAfterClose ==
  [][\A c \in Slots :
       (calls[c].op = "stop" /\ calls[c].pc = "wait" /\ calls'[c] # calls[c])
         => (jobs'[calls[c].id] = NoProc /\ task'[calls[c].id].status = "stopped")]_vars

\* C4: SIGKILL reaches a subprocess if and only if a stopTask timer fired
\* while the subprocess had not exited (so never one that exited before the
\* timer), and only after SIGTERM reached it.
C4_Escalation ==
  \A p \in ProcIds :
    /\ proc[p].kill <=> proc[p].timedOut
    /\ proc[p].kill => (proc[p].term /\ proc[p].stopReq /\ proc[p].stopRet)

\* C4 witness: one subprocess was stopped gracefully (it closed before the
\* timer) and another one was escalated to SIGKILL.
C4_Witness ==
  \E p, q \in ProcIds :
    /\ proc[p].term /\ proc[p].st = "closed" /\ ~proc[p].kill /\ proc[p].stopRet
    /\ proc[q].kill

\* C5: after a stopTask on a process has returned, a startTask for the same id
\* never takes the already-running path on the handle of that process.
C5_FreshHandleAfterStop ==
  [][\A id \in TaskIds :
       (hist'[id].starts = hist[id].starts + 1 /\ jobs[id] # NoProc)
         => ~proc[jobs[id]].stopRet]_vars

\* C6: when the subprocess of a stored task closes, the status written is
\* 'stopped' if a stopTask asked this subprocess to stop or its exit code is 0,
\* and 'error' otherwise.
C6_CloseRecorded ==
  \A p \in ProcIds :
    (proc[p].st = "closed" /\ proc[p].rec # "lost") =>
      proc[p].rec = IF proc[p].stopReq \/ proc[p].exitCode = "zero" THEN "stopped" ELSE "error"

\* C7: for a task that was started once and asked nothing else, the statuses
\* carried by its stateChanged events are, in order, 'starting', 'running',
\* then 'stopped' or 'error', or else 'starting' then 'error'.
AllowedEvents ==
  {<<"starting", "running", "stopped">>, <<"starting", "running", "error">>, <<"starting", "error">>}

C7_EventOrder ==
  \A id \in TaskIds :
    (hist[id].starts = 1 /\ ~hist[id].others) => \E t \in AllowedEvents : IsPrefix(events[id], t)

\* C8: the stored definition of a task changes only while no subprocess of the
\* task is alive.
C8_NoEditWhileLive ==
  [][\A id \in TaskIds : task'[id].path # task[id].path => ~Alive(proc, id)]_vars

\* C9: when removeTask returns true, the record is gone from the store, no
\* subprocess of the task is alive and the jobs map has no entry for the id.
C9_RemoveStopsFirst ==
  [][\A c \in Slots :
       (calls[c].op = "remove" /\ calls[c].pc = "persist" /\ calls'[c] # calls[c])
         => /\ calls[c].id \notin stored'
            /\ ~Alive(proc', calls[c].id)
            /\ jobs'[calls[c].id] = NoProc]_vars

C11_DemoRoom ==
  [][/\ (IssueCreate([path |-> DemoRoom, input |-> "ok"]) /\ lastRet'.via = "ok")
          => task'[nextId'].path = DemoRoomLower
     /\ (/\ IssueCreate([path |-> DemoRoomLower, input |-> "ok"])
         /\ \E i \in stored : task[i].path = Normalized[DemoRoom])
          => lastRet'.via = "PathTaken"]_vars

\* The store has finished loading.
StoreLoaded == configFile.phase = "read" /\ saveQueue = <<>>

\* C12: once init has finished, no task has status 'running' or 'starting':
\* a task persisted as 'running' or 'starting' is loaded as 'stopped', a task
\* persisted as 'created', 'stopped' or 'error' keeps its status, and no
\* process handle is registered.
C12_LoadReconciled ==
  StoreLoaded =>
    /\ \A i \in stored : task[i].status \notin {"running", "starting"}
    /\ \A i \in stored :
         LET was == configFile.tasks[i].status
         IN /\ was \in {"running", "starting"} => task[i].status = "stopped"
            /\ was \in {"created", "stopped", "error"} => task[i].status = was
    /\ \A i \in TaskIds : jobs[i] = NoProc
    /\ \A q \in ProcIds : proc[q].st = "none"

\* C12 witness: a task persisted as 'starting' was loaded as 'stopped' next to
\* one persisted as 'error' that kept its status.
C12_Witness ==
  /\ StoreLoaded
  /\ \E i, j \in stored :
       /\ configFile.tasks[i].status = "starting" /\ task[i].status = "stopped"
       /\ configFile.tasks[j].status = "error" /\ task[j].status = "error"

\* The synthesis has ended, by returning or by throwing.
Built == cmd.phase \in {"returned", "threw"}

\* The capability flag that the snapshot holds for a hardware encoder.
FlagOf(caps, encoder) ==
  CASE encoder = "h264_qsv" -> caps.hasQsvH264
    [] encoder = "hevc_qsv" -> caps.hasQsvHevc
    [] encoder = "h264_videotoolbox" -> caps.hasVideoToolboxH264
    [] encoder = "hevc_videotoolbox" -> caps.hasVideoToolboxHevc
    [] encoder = "h264_nvenc" -> caps.hasNvencH264
    [] encoder = "hevc_nvenc" -> caps.hasNvencHevc

\* The encoder of a backend for the codec family of a task's video codec.
FamilyEncoder(videoCodec, backend) ==
  IF videoCodec = "hevc"
  THEN CASE backend = "nvenc" -> "hevc_nvenc" [] backend = "qsv" -> "hevc_qsv"
         [] backend = "videotoolbox" -> "hevc_videotoolbox" [] backend = "cpu" -> "libx265"
  ELSE CASE backend = "nvenc" -> "h264_nvenc" [] backend = "qsv" -> "h264_qsv"
         [] backend = "videotoolbox" -> "h264_videotoolbox" [] backend = "cpu" -> "libx264"

\* The backend is available to the task: its flag for the codec family is set.
Has(backend) == FlagOf(cmd.caps, FamilyEncoder(cmd.task.videoCodec, backend))

\* The policy in force: the task's own, or the global default when it is auto.
InForce == IF cmd.task.hwAccel = "auto" THEN cmd.settings.defaultHwAccelPolicy ELSE cmd.task.hwAccel

\* The argument that follows the flag in the argument vector.
ArgAfter(args, flag) ==
  LET i == CHOOSE k \in 1..Len(args) - 1 : args[k] = <<flag>> IN args[i + 1]

C16_NamedBackend ==
  (Built /\ InForce \in {"qsv", "nvenc", "videotoolbox"} /\ cmd.task.videoCodec # "copy") =>
    IF Has(InForce)
    THEN /\ cmd.out.error # "EncoderUnavailable"
         /\ cmd.phase = "returned" =>
              /\ cmd.out.videoEncoder = FamilyEncoder(cmd.task.videoCodec, InForce)
              /\ cmd.out.selectedPolicy = InForce
    ELSE /\ cmd.phase = "threw"
         /\ cmd.out.error = "EncoderUnavailable"
         /\ cmd.out.missing = FamilyEncoder(cmd.task.videoCodec, InForce)

\* C16 witness: the global default names NVENC, the task says auto, NVENC is
\* not available for H.264 while QSV is: synthesis failed naming h264_nvenc.
C16_Witness ==
  /\ cmd.phase = "threw"
  /\ cmd.task.hwAccel = "auto" /\ cmd.settings.defaultHwAccelPolicy = "nvenc"
  /\ cmd.task.videoCodec = "h264"
  /\ ~cmd.caps.hasNvencH264 /\ cmd.caps.hasQsvH264
  /\ cmd.out.error = "EncoderUnavailable" /\ cmd.out.missing = "h264_nvenc"

\* C17: whenever synthesis returns, the argument after '-c:v' is copy, a
\* software encoder, or a hardware encoder of the task's codec family whose
\* flag is set in the snapshot.
C17_EncoderAvailable ==
  cmd.phase = "returned" =>
    LET encoder == ArgAfter(cmd.out.args, "-c:v")[1]
    IN \/ encoder \in {"copy", "libx264", "libx265"}
       \/ /\ encoder \in {FamilyEncoder(cmd.task.videoCodec, b) : b \in {"nvenc", "qsv", "videotoolbox"}}
          /\ FlagOf(cmd.caps, encoder)

\* C17 witness: a command was built for HEVC with the HEVC NVENC flag set and
\* the H.264 NVENC flag not set, and it names hevc_nvenc.
C17_Witness ==
  /\ cmd.phase = "returned"
  /\ cmd.task.videoCodec = "hevc"
  /\ cmd.caps.hasNvencHevc /\ ~cmd.caps.hasNvencH264
  /\ ArgAfter(cmd.out.args, "-c:v") = <<"hevc_nvenc">>

\* The relay subprocesses the operating system still runs.
RelaysAlive == {q \in ProcIds : child[q].st \in {"launching", "up"}}

\* C18: a start issued while the server is running or starting changes
\* nothing, and at most one relay-server subprocess is alive at any time,
\* overlapping start calls included.
C18_OneRelay ==
  /\ [](Cardinality(RelaysAlive) <= 1)
  /\ [][\A settings \in ServerSettings :
          (server.state \in Serving /\ (IssueServerStart(settings) \/ EnsureServerRunning(settings)))
            => UNCHANGED serverVars]_vars

\* The restart call in slot c returns in this step: from start's
\* already-serving test after the wait, or from start after the launch.
RestartReturns(c) ==
  /\ scalls[c].op = "restart"
  /\ scalls'[c].op = "free"
  /\ scalls[c].pc = "wait" \/ child' # child

\* C19: when a restart of a serving relay server returns, the old subprocess
\* is gone and the server is starting or running with a new subprocess
\* launched from the given settings, also after the SIGKILL escalation.
C19_RestartReplaces ==
  [][\A c \in Slots :
       RestartReturns(c) =>
         /\ scalls[c].p # NoProc => scalls[c].p \notin RelaysAlive'
         /\ server'.state \in Serving
         /\ server'.process \notin {NoProc, scalls[c].p}
         /\ child'[server'.process].conf = scalls[c].settings]_vars

\* C20: the close of a relay subprocess is recorded as 'stopped' exactly when
\* a stop was issued for that same subprocess, and as 'error' otherwise.
C20_StopAttributed ==
  \A q \in ProcIds :
    child[q].rec # "none" => (child[q].rec = "stopped" <=> child[q].stopReq)

\* A scan has completed: the detector holds a snapshot.
ScanCompleted == scan.cache # {}

\* C21: once a scan has completed, also with an 'unavailable' snapshot, an
\* unforced scan returns the cached snapshot, launches no probe and leaves the
\* cache alone; a forced scan always probes again, and the snapshot it ends
\* with replaces the cache.
C21_ScanCache ==
  [][/\ (ScanCompleted /\ IssueScan(FALSE)) =>
          /\ scan'.ret = scan.cache
          /\ scan'.probes = scan.probes /\ scan'.calls = scan.calls
          /\ scan'.cache = scan.cache
     /\ IssueScan(TRUE) => \E c \in Slots : scan.calls[c].pc = "free" /\ scan'.calls[c].pc = "access"
     /\ \A c \in Slots, snap \in ProbeResults \cup {unavailable} :
          (scan.calls[c].force /\ (ScanProbed(c, snap) \/ (snap = unavailable /\ (ScanProbeFails(c) \/ ScanBinaryMissing(c)))))
            => scan'.cache = {snap} /\ scan'.ret = {snap}]_vars

\* C21 witness: the only scan that ran ended 'unavailable' without a probe
\* (binary missing), and a later unforced scan was answered from the cache.
C21_Witness ==
  /\ scan.cache = {unavailable} /\ scan.ret = {unavailable}
  /\ scan.probes = 0 /\ scan.hits >= 1
  /\ \A c \in Slots : scan.calls[c].pc = "free"

\* ---- C22 ----
\* The links of the chain whose write is in progress, and those whose write
\* has started.
Writing == {k \in 1..Len(disk.links) : disk.links[k].st = "writing"}
Started == {k \in 1..Len(disk.links) : disk.links[k].st \in {"writing", "done", "failed"}}

\* C22: the writes of config.json are totally ordered.  A write has started
\* only if every write queued before it is complete, at most one write is
\* in progress at any time, and once every queued write is complete the file
\* holds the configuration as it was at the last persist call, whatever the
\* order in which operations on different tasks called persist.
C22_WritesOrdered ==
  /\ \A k \in Started : \A j \in 1..(k - 1) : disk.links[j].st = "done"
  /\ Cardinality(Writing) <= 1
  /\ (disk.links # <<>> /\ \A k \in 1..Len(disk.links) : disk.links[k].st = "done")
       => disk.file = disk.links[Len(disk.links)].content

\* Three operations on two tasks have called persist: the first write is
\* complete and on disk, the second is in progress, the third waits.
C22_Witness ==
  /\ Len(disk.links) = 3
  /\ disk.links[1].st = "done" /\ disk.links[2].st = "writing" /\ disk.links[3].st = "queued"
  /\ disk.file = disk.links[1].content
  /\ \A id \in 1..2 : disk.mem[id] > 0

\* ---- C23 ----
\* Authentication is on: the settings have the flag and it is true.
authEnabled(settings) == TRUE \in settings.enableAuth

\* The invariants of the settings: a host, a whole port in 1..65535, and a user
\* name and a password when authentication is on.
meetsInvariants(settings) ==
  /\ truthy(settings.listenHost)
  /\ settings.listenPort # {}
  /\ \A v \in settings.listenPort : v.int /\ v.n >= 1 /\ v.n <= 65535
  /\ authEnabled(settings) => truthy(settings.authUsername) /\ truthy(settings.authPassword)

\* C23: updateSettings accepts an update exactly when the merged settings
\* have a non-empty host, a whole port in 1..65535 and, if authentication is
\* on, a non-empty user name and password; and the settings the store holds
\* meet these invariants in every state from the end of init on.
C23_SettingsInvariants ==
  /\ [](config.phase = "loaded" => meetsInvariants(config.settings))
  /\ [][\A partial \in Partials :
          UpdateSettings(partial)
            => (config'.ret = "ok" <=> meetsInvariants(merged(config.settings, partial)))]_vars

\* ---- C24 ----
\* A task as the claim has it after a reload.
reloaded(t) ==
  [t EXCEPT !.status = IF @ = "running" \/ @ = "starting" THEN "stopped" ELSE @]

\* C24: when the application is launched again over the config.json its last
\* run wrote, init leaves the store with the settings that run ended with,
\* field for field, and with its tasks, a task left 'running' or 'starting'
\* being 'stopped'.
C24_RoundTrip ==
  [][(config.phase = "unread" /\ config'.phase = "loaded")
       => \A b \in config.before :
            /\ config'.settings = b.settings
            /\ config'.tasks = [i \in 1..Len(b.tasks) |-> reloaded(b.tasks[i])]]_vars

\* ---- C25 ----
\* The startTask call of slot c ends in one of its checks: it was waiting for
\* the check of the binary or of the input file and is gone without having
\* reached the write of 'starting'.
StartRejected(c) ==
  /\ calls[c].op = "start" /\ calls[c].pc \in {"bin", "access"}
  /\ calls'[c] = FreeSlot

\* C25: a startTask that fails one of its checks has no effect.  No
\* subprocess is spawned, the jobs map and the stop-requested set are
\* unchanged, the status and lastError of every task are unchanged and no
\* stateChanged event is emitted.
C25_FailedStartNoEffect ==
  [][\A c \in Slots : StartRejected(c) => UNCHANGED <<proc, jobs, stopping, task, events>>]_vars

\* A start of task 1 was issued and has ended with no subprocess ever
\* spawned: it failed a check, and the task is as it was loaded.
C25_Witness ==
  /\ hist[1].starts = 1 /\ ~hist[1].others
  /\ \A c \in Slots : calls[c] = FreeSlot
  /\ \A q \in ProcIds : proc[q].st = "none"
  /\ task[1].status = "created" /\ task[1].lastError = "none"
  /\ events[1] = <<>>

\* ---- C26 ----
\* The launch of subprocess p fails in this step: its 'error' is delivered.
SpawnErrorOf(p) == proc[p].st = "launching" /\ proc'[p].st = "failed"

\* Subprocess p, which no stopTask asked to end, is found closed in this step
\* after ending with a non-zero exit code or by a signal.
UnexpectedExitOf(p) ==
  /\ proc[p].st = "exited" /\ proc'[p].st = "closed"
  /\ ~proc[p].stopReq /\ proc[p].exitCode # "zero"

\* C26: a spawn error or an unexpected exit of a task's subprocess ends no
\* startTask call; it is recorded on the task as status 'error'.  A task with
\* status 'error' has a lastError in every reachable state, and a step that
\* takes a task out of 'error' clears its lastError.
C26_FailureRecorded ==
  /\ [](\A id \in stored : task[id].status = "error" => task[id].lastError # "none")
  /\ [][\A p \in ProcIds :
          (SpawnErrorOf(p) \/ UnexpectedExitOf(p))
            => /\ \A c \in Slots : calls[c].op = "start" => calls'[c] = calls[c]
               /\ proc[p].id \in stored => task'[proc[p].id].status = "error"]_vars
  /\ [][\A id \in stored \cap stored' :
          (task[id].status = "error" /\ task'[id].status # "error")
            => task'[id].lastError = "none"]_vars

\* ---- C27 ----
\* The status transitions of the per-task state machine.
TaskTransitions ==
  {<<"created", "starting">>, <<"stopped", "starting">>, <<"starting", "running">>,
   <<"running", "stopped">>, <<"starting", "error">>, <<"running", "error">>,
   <<"error", "starting">>}

\* The writes of a status queued in this step, and the task each is for:
\* the callers of updateTaskRuntimeState are startTask, stopTask and the
\* three handlers of a subprocess.
StatusWrites ==
  {saveQueue'[k] : k \in (Len(saveQueue) + 1)..Len(saveQueue')}
    \cap {e \in {saveQueue'[k] : k \in 1..Len(saveQueue')} :
            e.k \in {"start", "stopRecon", "spawnH", "errorH", "closeH"}}

WrittenTask(e) == IF e.k \in {"start", "stopRecon"} THEN calls'[e.c].id ELSE proc[e.p].id

\* C27: every write of a task's stored status is a transition of the state
\* machine created/stopped -> starting -> running -> stopped, starting/running
\* -> error, error -> starting, and the status changes in no other step.
C27_TaskStateMachine ==
  [][/\ \A e \in StatusWrites :
          <<task[WrittenTask(e)].status, task'[WrittenTask(e)].status>> \in TaskTransitions
     /\ \A id \in stored \cap stored' :
          task[id].status # task'[id].status
            => <<task[id].status, task'[id].status>> \in TaskTransitions]_vars

\* ---- C28 ----
\* The transitions of the relay-server state machine.
ServerTransitions ==
  {<<"stopped", "starting">>, <<"starting", "running">>, <<"running", "stopped">>,
   <<"starting", "error">>, <<"running", "error">>, <<"error", "starting">>}

\* The 'close' of relay p, whose launch had failed and was reported by its
\* 'error' handler, is handled in this step.
ClosesAfterSpawnError(p) == child[p].st = "failed" /\ child'[p].st = "closed"

\* C28: every change of the relay-server state is a transition of stopped ->
\* starting -> running -> stopped, starting/running -> error, error ->
\* starting, so that stop() never turns 'error' into 'stopped'; and the close
\* of a relay whose launch failed does not report 'error' a second time.
C28_ServerStateMachine ==
  [][/\ server.state # server'.state
          => <<server.state, server'.state>> \in ServerTransitions
     /\ \A p \in ProcIds : ClosesAfterSpawnError(p) => server'.state # "error"]_vars

\* ---- C29 ----
\* The write stopTask queues for task id when it reconciles the record: the
\* call resumes when the write is done, emits the record and returns.
ReconcilingWrite(id) ==
  /\ Len(saveQueue') = Len(saveQueue) + 1
  /\ LET e == saveQueue'[Len(saveQueue')]
     IN e.k = "stopRecon" /\ calls'[e.c].op = "stop" /\ calls'[e.c].id = id
                         /\ calls'[e.c].pc = "persist"
  /\ \A k \in 1..Len(saveQueue) : saveQueue'[k] = saveQueue[k]

StopAllCalls ==
  /\ teardown'.st = "running"
  /\ teardown.st = "idle" \/ Len(teardown'.rest) < Len(teardown.rest)

\* stopAll returns in this step.
StopAllReturns == teardown.st = "running" /\ teardown'.st = "returned"

\* C30: stopAll stops the tasks that had a jobs entry when it was called one
\* after another, calling stopTask for the next only when no stopTask it
\* called before is still in progress; and when it returns none of those tasks
\* has a live subprocess or a jobs entry.
C30_StopAllStopsAll ==
  [][/\ StopAllCalls
          => \A c \in Slots : ~(calls[c].op = "stop" /\ calls[c].id \in teardown.ids)
     /\ StopAllReturns
          => \A id \in teardown.ids : jobs'[id] = NoProc /\ ~Alive(proc', id)]_vars

\* ---- C31 ----
\* The subprocesses the operating system still runs: transcoders and relays.
TranscodersAlive == {q \in ProcIds : proc[q].st \in {"launching", "up"}}

\* C31: after before-quit the application process exits only when stopAll
\* has returned and the stop of the relay server has returned, and no
\* transcoding or relay subprocess is alive at that moment.
C31_QuitAwaitsStops ==
  [][(teardown.host # "exited" /\ teardown'.host = "exited")
       => /\ teardown.st = "returned"
          /\ \A c \in Slots : scalls[c].op # "stop"
          /\ TranscodersAlive = {} /\ RelaysAlive = {}]_vars

\* ---- C32 ----
\* The percent-encoded credentials prefix of the settings.
AuthPrefix ==
  <<encodeURIComponent(cmd.settings.authUsername), ":",
    encodeURIComponent(cmd.settings.authPassword), "@">>

\* The part of the output URL between the scheme and the port separator.
UrlAuthority ==
  LET url == cmd.out.outputUrl
      colon == CHOOSE k \in 2..(Len(url) - 1) :
                 url[k] = ":" /\ url[k + 1] = cmd.settings.listenPort
  IN SubSeq(url, 2, colon - 1)

\* The host of the output URL.
UrlHost == UrlAuthority[Len(UrlAuthority)]

\* The output URL has the credentials prefix before its host.
UrlHasAuth == Len(UrlAuthority) = 5 /\ SubSeq(UrlAuthority, 1, 4) = AuthPrefix

\* The listen host is one of the wildcard bind addresses.
Wildcard == cmd.settings.listenHost \in {"0.0.0.0", " :: ", "[::]"}

\* C32: the output URL of a synthesis that returned carries the
\* percent-encoded "user:password@" prefix exactly when authentication is
\* enabled; its host is 127.0.0.1 exactly when the listen host is a wildcard
\* bind address and is the configured listen host otherwise; the URL is the
\* last argument and follows "-f", "rtsp".
C32_OutputUrl ==
  cmd.phase = "returned" =>
    LET args == cmd.out.args
        n == Len(args)
    IN /\ UrlHasAuth <=> cmd.settings.enableAuth
       /\ ~UrlHasAuth => Len(UrlAuthority) = 1
       /\ (UrlHost = "127.0.0.1") <=> Wildcard
       /\ ~Wildcard => UrlHost = hostTrim(cmd.settings.listenHost)
       /\ args[n] = cmd.out.outputUrl
       /\ args[n - 1] = <<"rtsp">> /\ args[n - 2] = <<"-f">>

\* ---- C33 ----
\* The argument vector has the flag among its arguments.
HasArg(flag) == \E k \in 1..Len(cmd.out.args) : cmd.out.args[k] = <<flag>>

\* C33: with video codec copy a synthesis never fails with
\* EncoderUnavailable, whatever the policy and the snapshot, and when it
\* returns the selected policy is copy and the arguments hold "-c:v copy" and
\* none of "-b:v", "-r", "-preset"; with another codec "-preset p4" is there
\* exactly when NVENC was selected, "-preset veryfast" exactly when the
\* software encoder was selected, and no preset for QSV and VideoToolbox.
C33_CopyAndPresets ==
  /\ (Built /\ cmd.task.videoCodec = "copy") =>
        /\ cmd.out.error # "EncoderUnavailable"
        /\ cmd.phase = "returned" =>
              /\ cmd.out.selectedPolicy = "copy"
              /\ ArgAfter(cmd.out.args, "-c:v") = <<"copy">>
              /\ ~HasArg("-b:v") /\ ~HasArg("-r") /\ ~HasArg("-preset")
  /\ (cmd.phase = "returned" /\ cmd.task.videoCodec # "copy") =>
        /\ cmd.out.selectedPolicy \in {"nvenc", "qsv", "videotoolbox", "cpu"}
        /\ (HasArg("-preset") /\ ArgAfter(cmd.out.args, "-preset") = <<"p4">>)
             <=> cmd.out.selectedPolicy = "nvenc"
        /\ (HasArg("-preset") /\ ArgAfter(cmd.out.args, "-preset") = <<"veryfast">>)
             <=> cmd.out.selectedPolicy = "cpu"
        /\ cmd.out.selectedPolicy \in {"qsv", "videotoolbox"} => ~HasArg("-preset")

\* C33 witness: a copy task whose policy names NVENC, on a snapshot without
\* NVENC and with a bitrate and a frame rate in the definition, has been
\* synthesized.
C33_Witness ==
  /\ cmd.phase = "returned" /\ cmd.task.videoCodec = "copy"
  /\ cmd.task.hwAccel = "nvenc" /\ ~cmd.caps.hasNvencH264 /\ ~cmd.caps.hasNvencHevc
  /\ cmd.task.bitrateKbps # "undefined" /\ cmd.task.fps # "undefined"
  /\ cmd.out.selectedPolicy = "copy"

\* ---- C34 ----
\* The ids that have a registered process handle.
Registered == {id \in TaskIds : jobs[id] # NoProc}

\* Every stop-requested marker is for an id with a registered handle.
MarkersRegistered == stopping \subseteq Registered

\* Subprocess p is found closed in this step after a crash, and no stopTask
\* signalled it: the stop marker of its task, if there is one, was set for
\* another subprocess.
CrashOf(p) ==
  /\ proc[p].st = "exited" /\ proc'[p].st = "closed"
  /\ proc[p].exitCode # "zero" /\ ~proc[p].stopReq

\* C34: in every reachable state each stop-requested marker belongs to an id
\* with a registered process handle, and the crash of a subprocess that no
\* stopTask signalled is never taken for a requested stop on account of a
\* marker set for another subprocess of the same task.
C34_MarkersRegistered ==
  /\ []MarkersRegistered
  /\ [][\A p \in ProcIds : CrashOf(p) => proc'[p].rec # "stopped"]_vars

\* ---- C35 ----
\* C35: while a subprocess of a stored task is alive, the stored definition
\* of the task is the one its argument vector was synthesized from; an
\* updateTask between the synthesis and the registration of the handle does
\* not change it.
C35_DefinitionOfLiveProcess ==
  \A p \in TranscodersAlive :
    proc[p].id \in stored => task[proc[p].id].path = proc[p].path

\* ---- C36 ----
\* A lifecycle handler of subprocess p runs in this step: 'spawn', 'error'
\* or 'close' is delivered and the handler calls updateTaskRuntimeState.
HandlerRuns(p) ==
  \/ proc[p].st = "launching" /\ proc'[p].st \in {"up", "failed"}
  \/ proc[p].st \in {"exited", "failed"} /\ proc'[p].st = "closed"

\* C36: whenever a spawn, error or close handler of a subprocess runs, the
\* task of the subprocess is in the store, so the handler's
\* updateTaskRuntimeState does not reject with "Task not found".
C36_HandlersFindTask ==
  [][\A p \in ProcIds : HandlerRuns(p) => proc[p].id \in stored]_vars

\* ---- C37 ----
\* The persist calls that were rejected: their own write failed, or no write
\* was made for them.
Rejected == {k \in 1..Len(disk.links) : disk.links[k].st \in {"failed", "skipped"}}

\* C37: a failed write rejects only the persist call that issued it.  Every
\* persist call made after it has its own write made, and is rejected only
\* if that write fails.
C37_FailureIsLocal ==
  \A k \in Rejected : disk.links[k].st = "failed"

\* ---- C38 ----
\* C38: a store operation that is rejected leaves the configuration in
\* memory as it was before the call.  For the operation called last, which
\* no later operation has followed: once its persist is rejected, the
\* configuration in memory is the one it found.
C38_FailedOperationNoEffect ==
  \A k \in Rejected : k = Len(disk.links) => disk.mem = disk.links[k].before

\* ---- C39 ----
\* C39: normalizing a normalized path changes nothing, for every raw path;
\* every stored path is a fixed point of the store's normalization and of
\* the synthesizer's, so the path segment of the output URL synthesized for a
\* stored task is its stored path.
C39_NormalizeIdempotent ==
  /\ \A r \in RawPaths \cup DemoPaths :
        normalizePathSegment(Normalized[r]) = Normalized[r]
  /\ \A id \in stored :
        /\ normalizePathSegment(task[id].path) = task[id].path
        /\ safeSegment(task[id].path) = task[id].path

\* C39 witness: two tasks are stored, one under a path with a slash that is
\* not a leading one, and the last request was an accepted one.
C39_Witness ==
  /\ \E i, j \in stored : task[i].path = <<"a">> /\ task[j].path = <<"a", "/">>
  /\ lastRet.via = "ok"

\* ---- C40 ----
\* A settings:set request is in progress: it awaits updateSettings or the
\* restart it called.
SetInProgress == config.setting # {} \/ \E c \in Slots : scalls[c].op = "restart"

\* C40: when no settings:set request is in progress and the relay server is
\* running or starting, the configuration its subprocess was launched with
\* was rendered from the stored settings, which are the settings a task
\* started now is synthesized with.
C40_SettingsApplied ==
  (~SetInProgress /\ server.state \in Serving /\ server.process # NoProc)
    => child[server.process].conf = config.current

====
